---- MODULE Spec2Model ----
(***************************************************************************)
(* VyaparaCore backend: the document-to-ledger workflow of                 *)
(* app/routes/{order,invoice,payment,inventory}.py as a state machine.     *)
(*                                                                         *)
(* Persistent rows are records; a handler is one action (its whole body,   *)
(* up to db.session.commit()).  The persistence layer (config.database.db) *)
(* is taken to store every attribute a handler assigns and to hand it back *)
(* on a later read, with the column defaults of app/models.  Money and     *)
(* quantities are integers: float(Decimal(str(x))) is exact on them.       *)
(* NULL foreign keys and "row not found" are 0.                            *)
(***************************************************************************)
EXTENDS Integers, Sequences, FiniteSets, TLC

\* ------------------------------------------------------------------ bounds
MaxQty == 3
MaxTxns == 5
MaxAdjustments == 1
MaxStock == 3
MaxInvoices == 1
MaxPayments == 1
MaxAllocations == 2
MaxCreditNotes == 1
MaxRequests == 3
MaxOrderInvoices == 2
MaxQuoteOrders == 2
MaxQuotations == 3
MaxFailTxns == 3
MaxTenantPayments == 2
MaxPurchaseOrders == 4
MaxTxnRows == 6
MaxTotalsOrders == 2
\* how far below zero the exploration follows a customer's outstanding amount
MaxOverpaid == 240

NULL == 0
\* an id no row carries: the lookup returns None
UnknownId == 9
Products == {1, 2}
Warehouses == {1, 2}
Customers == {1}
Suppliers == {1}
\* BankAccount rows by id: account 1 belongs to organization 1, account 2 to
\* organization 2
BankAccounts == {1, 2}
BankOrganization(b) == b
\* g.organization_id of every request
RequestOrganization == 1
\* product 1 is stock-tracked, product 2 is a service line (track_inventory = False)
TrackInventory(p) == p = 1
Qtys == 1..MaxQty

VARIABLES
  stock,          \* Stock rows, keyed by <<product_id, warehouse_id>>
  txns,           \* StockTransaction rows of the organization, in insertion order
  current_stock,  \* Product.current_stock
  orders,         \* SalesOrder rows (with their SalesOrderItem lines)
  pos,            \* PurchaseOrder rows (with their PurchaseOrderItem lines)
  invoices,       \* Invoice rows
  outstanding,    \* Customer.outstanding_amount
  seqs,           \* SequenceNumber.current_number by document_type
  payments,       \* Payment rows (with their PaymentAllocation rows)
  credit_notes,   \* CreditNote rows
  debit_notes,    \* DebitNote rows
  payable,        \* Supplier.current_balance
  bank,           \* BankAccount.current_balance
  inflight,       \* requests that have read their rows and not yet committed
  hist,           \* observer: the balances around the last payment and the last confirmation
  quotations,     \* Quotation rows by id
  resp            \* the response of the last request

stockVars == <<stock, txns, current_stock>>
payVars == <<payments, credit_notes, debit_notes, payable, bank, hist, quotations>>
vars == <<stock, txns, current_stock, orders, pos, invoices, outstanding, seqs,
          payments, credit_notes, debit_notes, payable, bank, hist, quotations,
          inflight, resp>>

\* ----------------------------------------------------------------- helpers
Min(a, b) == IF a < b THEN a ELSE b
Max(a, b) == IF a > b THEN a ELSE b

RECURSIVE SumSeq(_)
SumSeq(s) == IF s = <<>> THEN 0 ELSE Head(s) + SumSeq(Tail(s))

RECURSIVE SumOver(_, _)
SumOver(S, f) ==
  IF S = {} THEN 0
  ELSE LET x == CHOOSE y \in S : TRUE IN f[x] + SumOver(S \ {x}, f)

\* A Stock row as Stock(...) creates it: reserved_quantity and
\* available_quantity take their column default 0.
NoStock == [present |-> FALSE, quantity |-> 0, reserved_quantity |-> 0,
            available_quantity |-> 0]
NewStock(q) == [present |-> TRUE, quantity |-> q, reserved_quantity |-> 0,
                available_quantity |-> 0]

\* the sum taken over the rows of the first warehouse only
FirstWarehouseStock(st, p) == IF st[<<p, 1>>].present THEN st[<<p, 1>>].quantity ELSE 0

\* db.session.query(db.func.sum(Stock.quantity)).filter_by(product_id=p).scalar() or 0
TotalStock(st, p) ==
  SumOver({w \in Warehouses : st[<<p, w>>].present},
          [w \in Warehouses |-> st[<<p, w>>].quantity])

\* StockTransaction(...): the fields the ledger claims read.
Txn(prefix, n, p, w, type, q, before, after, rtype, rid) ==
  [transaction_number |-> <<prefix, n>>, product_id |-> p, warehouse_id |-> w,
   transaction_type |-> type, quantity |-> q, balance_before |-> before,
   balance_after |-> after, reference_type |-> rtype, reference_id |-> rid]

\* the table without uq_stock_txn_number
NeverDuplicate(ts) == FALSE

\* uq_stock_txn_number (organization_id, transaction_number): two of the rows
\* carry the same number, so the INSERT of the later one fails
DuplicateNumbers(ts) ==
  \E i, j \in DOMAIN ts : i < j /\ ts[i].transaction_number = ts[j].transaction_number

\* the response: HTTP status code and, for a rejected confirmation, the
\* lines listed in the error payload
Resp(code, errors) == [code |-> code, errors |-> errors]

\* ------------------------------------------------- inventory.py: adjustment
\* One pass of create_adjustment's loop body for a found product.
AdjustItem(item, w, st) ==
  LET p == item.product_id
      row == st.stock[<<p, w>>]
      current_qty == IF row.present THEN row.quantity ELSE 0
      new_qty == item.new_quantity
      diff == new_qty - current_qty
      txn == Txn("TXN", Len(st.txns) + 1, p, w, "adjustment", diff,
                 current_qty, new_qty, "stock_adjustment", 0)
      stock2 == [st.stock EXCEPT ![<<p, w>>] =
                   IF row.present THEN [row EXCEPT !.quantity = new_qty]
                   ELSE NewStock(new_qty)]
  IN [stock |-> stock2,
      txns |-> Append(st.txns, txn),
      current_stock |-> [st.current_stock EXCEPT ![p] = TotalStock(stock2, p)]]

RECURSIVE AdjustLoop(_, _, _)
AdjustLoop(items, w, st) ==
  IF items = <<>> THEN st
  ELSE LET item == Head(items)
           st2 == IF item.product_id \notin Products THEN st
                  ELSE AdjustItem(item, w, st)
       IN AdjustLoop(Tail(items), w, st2)

AdjustInputs ==
  LET Item == [product_id : Products \cup {UnknownId}, new_quantity : 0..MaxQty]
  IN {<<i>> : i \in {x \in Item : x.product_id # 2}} \cup
     {<< [product_id |-> 1, new_quantity |-> 3], [product_id |-> 1, new_quantity |-> 2] >>}

create_adjustment(w, items) ==
  LET st == AdjustLoop(items, w, [stock |-> stock, txns |-> txns,
                                  current_stock |-> current_stock])
  IN /\ stock' = st.stock
     /\ txns' = st.txns
     /\ current_stock' = st.current_stock
     /\ resp' = Resp(201, <<>>)
     /\ UNCHANGED <<payVars, inflight, orders, pos, invoices, outstanding, seqs>>

\* --------------------------------------------------- inventory.py: transfer
transfer_stock(from, to, p, qty) ==
  LET src == stock[<<p, from>>]
      dst == stock[<<p, to>>]
      n == Len(txns)
  IN IF from = to
     THEN /\ resp' = Resp(400, <<>>)
          /\ UNCHANGED <<payVars, inflight, stockVars, orders, pos, invoices, outstanding, seqs>>
     ELSE IF p \notin Products
     THEN /\ resp' = Resp(404, <<>>)
          /\ UNCHANGED <<payVars, inflight, stockVars, orders, pos, invoices, outstanding, seqs>>
     ELSE IF ~src.present \/ src.quantity < qty
     THEN /\ resp' = Resp(400, <<>>)
          /\ UNCHANGED <<payVars, inflight, stockVars, orders, pos, invoices, outstanding, seqs>>
     ELSE LET source_balance_before == src.quantity
              dest_balance_before == IF dst.present THEN dst.quantity ELSE 0
              txn_out == Txn("TXN", n + 1, p, from, "transfer", 0 - qty,
                             source_balance_before, source_balance_before - qty,
                             "transfer", 0)
              txn_in == Txn("TXN", n + 2, p, to, "transfer", qty,
                            dest_balance_before, dest_balance_before + qty,
                            "transfer", 0)
          IN /\ stock' = [stock EXCEPT
                  ![<<p, from>>] = [src EXCEPT !.quantity = source_balance_before - qty],
                  ![<<p, to>>] = IF dst.present
                                 THEN [dst EXCEPT !.quantity = dest_balance_before + qty]
                                 ELSE NewStock(qty)]
             /\ txns' = Append(Append(txns, txn_out), txn_in)
             /\ resp' = Resp(200, <<>>)
             /\ UNCHANGED <<payVars, inflight, current_stock, orders, pos, invoices, outstanding, seqs>>

\* ------------------------------------------------ order.py: sales orders
\* Stock.query.filter_by(product_id, variant_id, warehouse_id).first()
StockRow(st, p, w) == st[<<p, w>>]

\* the lines confirm/cancel/convert look at: a product that exists and
\* tracks inventory (the others are skipped with `continue`)
Considered(item) == item.product_id \in Products /\ TrackInventory(item.product_id)

\* available = quantity - reserved_quantity of the row, 0 without a row
AvailableFor(st, p, w) ==
  IF StockRow(st, p, w).present
  THEN StockRow(st, p, w).quantity - StockRow(st, p, w).reserved_quantity
  ELSE 0

\* a confirmation that stops at the first insufficient line
FirstInsufficientOnly(order, st) ==
  LET all == SelectSeq([i \in 1..Len(order.items) |-> i],
                       LAMBDA i : /\ Considered(order.items[i])
                                  /\ AvailableFor(st, order.items[i].product_id,
                                                   order.warehouse_id)
                                       < order.items[i].quantity)
  IN IF all = <<>> THEN <<>> ELSE <<Head(all)>>

\* indices of the lines appended to insufficient_items, in line order
InsufficientLines(order, st) ==
  SelectSeq([i \in 1..Len(order.items) |-> i],
            LAMBDA i : /\ Considered(order.items[i])
                       /\ AvailableFor(st, order.items[i].product_id, order.warehouse_id)
                            < order.items[i].quantity)

\* indices of the lines appended to items_to_reserve, in line order
ItemsToReserve(order, st) ==
  SelectSeq([i \in 1..Len(order.items) |-> i],
            LAMBDA i : /\ Considered(order.items[i])
                       /\ ~(AvailableFor(st, order.items[i].product_id, order.warehouse_id)
                              < order.items[i].quantity))

\* one pass of the "Reserve stock for all items" loop; idx counts from 0
ReserveItem(order, id, item, idx, txn_count, st) ==
  LET p == item.product_id
      w == order.warehouse_id
      row == StockRow(st.stock, p, w)
      balance_before == row.reserved_quantity
      reserved == balance_before + item.quantity
      txn == Txn("RES", txn_count + idx + 1, p, w, "reservation", item.quantity,
                 balance_before, reserved, "sales_order", id)
  IN [stock |-> [st.stock EXCEPT ![<<p, w>>] =
                   [row EXCEPT !.reserved_quantity = reserved,
                               !.available_quantity = row.quantity - reserved]],
      txns |-> Append(st.txns, txn)]

RECURSIVE ReserveLoop(_, _, _, _, _, _)
ReserveLoop(order, id, todo, idx, txn_count, st) ==
  IF todo = <<>> THEN st
  ELSE ReserveLoop(order, id, Tail(todo), idx + 1, txn_count,
                   ReserveItem(order, id, order.items[Head(todo)], idx, txn_count, st))

\* the transaction numbers already taken (uq_stock_txn_number)
TxnNumbers(ts) == {ts[i].transaction_number : i \in DOMAIN ts}

\* confirm_sales_order from "Reserve stock for all items" to the commit, on
\* the Stock rows and the transaction count this session read.  Only the
\* rows the loop changed are written back, with the values it computed.
ConfirmWrite(id, stock_seen, txn_count) ==
  LET order == orders[id]
      st == IF order.warehouse_id # NULL
            THEN ReserveLoop(order, id, ItemsToReserve(order, stock_seen), 0, txn_count,
                             [stock |-> stock_seen, txns |-> <<>>])
            ELSE [stock |-> stock_seen, txns |-> <<>>]
  IN /\ stock' = [k \in DOMAIN stock |->
                    IF st.stock[k] # stock_seen[k]
                    THEN [stock[k] EXCEPT
                            !.reserved_quantity = st.stock[k].reserved_quantity,
                            !.available_quantity = st.stock[k].available_quantity]
                    ELSE stock[k]]
     /\ txns' = txns \o st.txns
     /\ orders' = [orders EXCEPT ![id].status = "confirmed"]
     /\ hist' = [hist EXCEPT !.order_id = id, !.stock_pre = stock, !.stock_post = stock']
     /\ UNCHANGED <<current_stock, pos, invoices, outstanding, seqs,
                    payments, credit_notes, debit_notes, payable, bank, quotations>>

\* the response confirm_sales_order gives before it writes anything, 0 when
\* it goes on to reserve
ConfirmRejection(id, stock_seen) ==
  IF id \notin DOMAIN orders THEN Resp(404, <<>>)
  ELSE LET order == orders[id] IN
    IF order.status # "draft" THEN Resp(400, <<>>)
    ELSE IF order.warehouse_id # NULL /\ InsufficientLines(order, stock_seen) # <<>>
    THEN Resp(400, InsufficientLines(order, stock_seen))
    ELSE IF /\ order.warehouse_id # NULL
            /\ \E k \in DOMAIN ItemsToReserve(order, stock_seen) :
                 ~StockRow(stock_seen,
                           order.items[ItemsToReserve(order, stock_seen)[k]].product_id,
                           order.warehouse_id).present
    THEN \* a zero-quantity line without a Stock row: stock is None in the loop
         Resp(500, <<>>)
    ELSE Resp(0, <<>>)

confirm_sales_order(id) ==
  IF ConfirmRejection(id, stock).code # 0
  THEN /\ resp' = ConfirmRejection(id, stock)
       /\ UNCHANGED <<payVars, inflight, stockVars, orders, pos, invoices, outstanding, seqs>>
  ELSE /\ ConfirmWrite(id, stock, Len(txns))
       /\ resp' = Resp(200, <<>>)
       /\ UNCHANGED inflight

\* one pass of cancel's release loop for a considered line; idx counts all lines from 0
ReleaseItem(order, id, item, idx, txn_count, st) ==
  LET p == item.product_id
      w == order.warehouse_id
      row == StockRow(st.stock, p, w)
  IN IF row.present /\ row.reserved_quantity > 0
     THEN LET qty_to_release == Min(item.quantity, row.reserved_quantity)
              balance_before == row.reserved_quantity
              reserved == Max(0, balance_before - qty_to_release)
              txn == Txn("REL", txn_count + idx + 1, p, w, "reservation_release",
                         qty_to_release, balance_before, reserved, "sales_order", id)
          IN [stock |-> [st.stock EXCEPT ![<<p, w>>] =
                           [row EXCEPT !.reserved_quantity = reserved,
                                       !.available_quantity = row.quantity - reserved]],
              txns |-> Append(st.txns, txn)]
     ELSE st

RECURSIVE ReleaseLoop(_, _, _, _, _)
ReleaseLoop(order, id, idx, txn_count, st) ==
  IF idx >= Len(order.items) THEN st
  ELSE LET item == order.items[idx + 1]
           st2 == IF Considered(item)
                  THEN ReleaseItem(order, id, item, idx, txn_count, st)
                  ELSE st
       IN ReleaseLoop(order, id, idx + 1, txn_count, st2)

cancel_sales_order(id) ==
  IF id \notin DOMAIN orders
  THEN /\ resp' = Resp(404, <<>>)
       /\ UNCHANGED <<payVars, inflight, stockVars, orders, pos, invoices, outstanding, seqs>>
  ELSE LET order == orders[id] IN
    IF order.status \in {"delivered", "cancelled"}
    THEN /\ resp' = Resp(400, <<>>)
         /\ UNCHANGED <<payVars, inflight, stockVars, orders, pos, invoices, outstanding, seqs>>
    ELSE LET st == IF order.status = "confirmed" /\ order.warehouse_id # NULL
                   THEN ReleaseLoop(order, id, 0, Len(txns),
                                    [stock |-> stock, txns |-> txns])
                   ELSE [stock |-> stock, txns |-> txns]
         IN IF DuplicateNumbers(st.txns)
            THEN /\ resp' = Resp(500, <<>>)
                 /\ UNCHANGED <<payVars, inflight, stockVars, orders, pos, invoices,
                                outstanding, seqs>>
            ELSE /\ stock' = st.stock
                 /\ txns' = st.txns
                 /\ orders' = [orders EXCEPT ![id].status = "cancelled"]
                 /\ resp' = Resp(200, <<>>)
                 /\ UNCHANGED <<payVars, inflight, current_stock, pos, invoices, outstanding,
                                seqs>>

ship_sales_order(id) ==
  IF id \notin DOMAIN orders
  THEN /\ resp' = Resp(404, <<>>)
       /\ UNCHANGED <<payVars, inflight, stockVars, orders, pos, invoices, outstanding, seqs>>
  ELSE IF orders[id].status \notin {"confirmed", "processing"}
  THEN /\ resp' = Resp(400, <<>>)
       /\ UNCHANGED <<payVars, inflight, stockVars, orders, pos, invoices, outstanding, seqs>>
  ELSE /\ orders' = [orders EXCEPT ![id].status = "shipped"]
       /\ resp' = Resp(200, <<>>)
       /\ UNCHANGED <<payVars, inflight, stockVars, pos, invoices, outstanding, seqs>>

\* ------------------------------- order.py: convert sales order to invoice
\* Invoice(...) as convert_sales_order_to_invoice builds it
OrderInvoice(order, id, n) ==
  [invoice_number |-> <<"INVyymm", n>>, source_type |-> "sales_order",
   sales_order_id |-> id, customer_id |-> order.customer_id,
   grand_total |-> order.grand_total, total_amount |-> 0,
   paid_amount |-> 0, balance_due |-> order.grand_total,
   credit_note_amount |-> 0, status |-> "draft", payment_status |-> "unpaid"]

\* one pass of the "Deduct stock from reserved quantity" loop; idx counts all lines from 0
ConvertItem(order, invoice_id, item, idx, txn_count, st) ==
  LET p == item.product_id
      w == order.warehouse_id
      row == StockRow(st.stock, p, w)
  IN IF row.present
     THEN LET qty == item.quantity
              reserved_before == row.reserved_quantity
              qty_before == row.quantity
              release_qty == Min(qty, reserved_before)
              reserved == Max(0, reserved_before - release_qty)
              quantity == Max(0, qty_before - qty)
              txn == Txn("SALE", txn_count + idx + 1, p, w, "sale", qty,
                         qty_before, quantity, "invoice", invoice_id)
              stock2 == [st.stock EXCEPT ![<<p, w>>] =
                           [row EXCEPT !.reserved_quantity = reserved,
                                       !.quantity = quantity,
                                       !.available_quantity = quantity - reserved]]
          IN [stock |-> stock2,
              txns |-> Append(st.txns, txn),
              current_stock |-> [st.current_stock EXCEPT ![p] = TotalStock(stock2, p)]]
     ELSE st

RECURSIVE ConvertLoop(_, _, _, _, _)
ConvertLoop(order, invoice_id, idx, txn_count, st) ==
  IF idx >= Len(order.items) THEN st
  ELSE LET item == order.items[idx + 1]
           st2 == IF Considered(item)
                  THEN ConvertItem(order, invoice_id, item, idx, txn_count, st)
                  ELSE st
       IN ConvertLoop(order, invoice_id, idx + 1, txn_count, st2)

convert_sales_order_to_invoice(id) ==
  IF id \notin DOMAIN orders
  THEN /\ resp' = Resp(404, <<>>)
       /\ UNCHANGED <<payVars, inflight, stockVars, orders, pos, invoices, outstanding, seqs>>
  ELSE LET order == orders[id] IN
    IF order.status \notin {"confirmed", "processing", "shipped"}
    THEN /\ resp' = Resp(400, <<>>)
         /\ UNCHANGED <<payVars, inflight, stockVars, orders, pos, invoices, outstanding, seqs>>
    ELSE IF \E i \in DOMAIN invoices : invoices[i].sales_order_id = id
    THEN /\ resp' = Resp(400, <<>>)
         /\ UNCHANGED <<payVars, inflight, stockVars, orders, pos, invoices, outstanding, seqs>>
    ELSE LET count == Len(invoices) + 1
             invoice_id == Len(invoices) + 1
             st0 == [stock |-> stock, txns |-> txns, current_stock |-> current_stock]
             st == IF order.warehouse_id # NULL
                   THEN ConvertLoop(order, invoice_id, 0, Len(txns), st0)
                   ELSE st0
         IN IF DuplicateNumbers(st.txns)
            THEN /\ resp' = Resp(500, <<>>)
                 /\ UNCHANGED <<payVars, inflight, stockVars, orders, pos, invoices,
                                outstanding, seqs>>
            ELSE /\ invoices' = Append(invoices, OrderInvoice(order, id, count))
                 /\ stock' = st.stock
                 /\ txns' = st.txns
                 /\ current_stock' = st.current_stock
                 /\ orders' = [orders EXCEPT ![id].status = "processing"]
                 /\ resp' = Resp(201, <<>>)
                 /\ UNCHANGED <<payVars, inflight, pos, outstanding, seqs>>

\* --------------------------------------- order.py: receive purchase order
\* one pass of receive_purchase_order's loop for a line of this order
ReceiveItem(id, k, qty, w, st) ==
  LET item == st.items[k]
      pending == item.quantity - item.received_quantity
      qty_to_receive == IF qty > pending THEN pending ELSE qty
  IN IF qty_to_receive <= 0 THEN st
     ELSE LET received == item.received_quantity + qty_to_receive
              p == item.product_id
              row == StockRow(st.stock, p, w)
              balance_before == IF row.present THEN row.quantity ELSE 0
              txn == Txn("STK", Len(st.txns) + 1, p, w, "purchase", qty_to_receive,
                         balance_before, balance_before + qty_to_receive,
                         "purchase_order", id)
              stock2 == [st.stock EXCEPT ![<<p, w>>] =
                           IF row.present
                           THEN [row EXCEPT !.quantity = balance_before + qty_to_receive]
                           ELSE NewStock(qty_to_receive)]
          IN [stock |-> stock2,
              txns |-> Append(st.txns, txn),
              current_stock |-> [st.current_stock EXCEPT ![p] = TotalStock(stock2, p)],
              items |-> [st.items EXCEPT ![k].received_quantity = received],
              all_received |-> st.all_received /\ ~(received < item.quantity),
              \* Stock(...) is built here without organization_id, a NOT NULL
              \* column: the flush before the transaction count rejects the row
              failed |-> st.failed \/ ~row.present]

RECURSIVE ReceiveLoop(_, _, _, _)
ReceiveLoop(id, items_received, w, st) ==
  IF items_received = <<>> \/ st.failed THEN st
  ELSE LET recv == Head(items_received)
           st2 == IF recv.item_id \notin DOMAIN st.items THEN st
                  ELSE ReceiveItem(id, recv.item_id, recv.quantity, w, st)
       IN ReceiveLoop(id, Tail(items_received), w, st2)

receive_purchase_order(id, w, items_received) ==
  IF id \notin DOMAIN pos \/ pos[id].deleted
  THEN /\ resp' = Resp(404, <<>>)
       /\ UNCHANGED <<payVars, inflight, stockVars, orders, pos, invoices, outstanding, seqs>>
  ELSE IF pos[id].status \notin {"approved", "partial"} \/ w = NULL
  THEN /\ resp' = Resp(400, <<>>)
       /\ UNCHANGED <<payVars, inflight, stockVars, orders, pos, invoices, outstanding, seqs>>
  ELSE LET st == ReceiveLoop(id, items_received, w,
                   [stock |-> stock, txns |-> txns, current_stock |-> current_stock,
                    items |-> pos[id].items, all_received |-> TRUE, failed |-> FALSE])
       IN IF st.failed
          THEN /\ resp' = Resp(500, <<>>)
               /\ UNCHANGED <<payVars, inflight, stockVars, orders, pos, invoices, outstanding, seqs>>
          ELSE /\ stock' = st.stock
               /\ txns' = st.txns
               /\ current_stock' = st.current_stock
               /\ pos' = [pos EXCEPT ![id].items = st.items,
                                     ![id].status = IF st.all_received THEN "received"
                                                    ELSE "partial"]
               /\ resp' = Resp(200, <<>>)
               /\ UNCHANGED <<payVars, inflight, orders, invoices, outstanding, seqs>>

\* ------------------------------------------------ invoice.py: create invoice
\* Product.selling_price and Product.tax_rate of the catalogue: product 1 is
\* taxed at 18% GST (9 + 9 intrastate, 18 interstate), product 2 has no tax_rate
SellingPrice(p) == IF p = 1 THEN 100 ELSE 50
HasTaxRate(p) == p = 1
CgstRate(p) == 9
SgstRate(p) == 9
IgstRate(p) == 18
CessRate(p) == 0

\* Decimal amounts are carried as integers in units of 1/10000
Scale == 10000

\* Python round() of a non-negative Decimal: to the nearest integer, ties to even
RoundHalfEven(x4) ==
  LET q == x4 \div Scale
      r == x4 % Scale
  IN IF 2 * r < Scale THEN q
     ELSE IF 2 * r > Scale THEN q + 1
     ELSE IF q % 2 = 0 THEN q ELSE q + 1

\* taxable = qty * unit_price - qty * unit_price * discount_pct / 100
Taxable4(item) == item.quantity * item.unit_price * (100 - item.discount_percent) * 100

\* cgst + sgst + igst + cess of one line
LineTax4(item, is_interstate) ==
  LET p == item.product_id
      base == item.quantity * item.unit_price * (100 - item.discount_percent)
  IN IF ~HasTaxRate(p) THEN 0
     ELSE (IF is_interstate THEN base * IgstRate(p)
           ELSE base * CgstRate(p) + base * SgstRate(p)) + base * CessRate(p)

\* get_next_number / get_next_payment_number: seq.current_number += 1 on the
\* value this session read; the row is written back with that absolute value
get_next_number(current_number) == current_number + 1

\* ------------------------------- order.py: create, delete purchase order
\* PurchaseOrder.query.filter_by(organization_id=...).count(): a deleted row
\* stays in the sequence, so that ids keep their meaning
PurchaseOrderCount(rows) == Cardinality({i \in DOMAIN rows : ~rows[i].deleted})

\* the constraint left out of the table
NumberNeverInUse(rows, number) == FALSE

\* uq_purchase_order_number: a stored row of the organization carries number
NumberInUse(rows, number) ==
  \E i \in DOMAIN rows : ~rows[i].deleted /\ rows[i].order_number = number

create_purchase_order(data) ==
  IF data.supplier_id = NULL \/ data.items = <<>>
  THEN /\ resp' = Resp(400, <<>>)
       /\ UNCHANGED <<stockVars, orders, pos, invoices, outstanding, seqs, payVars, inflight>>
  ELSE IF data.supplier_id \notin Suppliers
  THEN /\ resp' = Resp(404, <<>>)
       /\ UNCHANGED <<stockVars, orders, pos, invoices, outstanding, seqs, payVars, inflight>>
  ELSE LET count == PurchaseOrderCount(pos) + 1
           order_number == <<"POyymm", count>>
           total_amount ==
             SumSeq([i \in DOMAIN data.items |->
                       Taxable4(data.items[i]) + LineTax4(data.items[i], data.is_interstate)])
               + data.charges * Scale
           order == [status |-> "draft", supplier_id |-> data.supplier_id,
                     grand_total |-> RoundHalfEven(total_amount), advance_amount |-> 0,
                     payment_status |-> "unpaid",
                     items |-> [i \in DOMAIN data.items |->
                                  [product_id |-> data.items[i].product_id,
                                   quantity |-> data.items[i].quantity,
                                   received_quantity |-> 0]],
                     order_number |-> order_number, deleted |-> FALSE]
       IN IF NumberInUse(pos, order_number)
          \* the INSERT violates uq_purchase_order_number: nothing is committed
          THEN /\ resp' = Resp(500, <<>>)
               /\ UNCHANGED <<stockVars, orders, pos, invoices, outstanding, seqs, payVars,
                              inflight>>
          ELSE /\ pos' = Append(pos, order)
               /\ resp' = Resp(201, <<>>)
               /\ UNCHANGED <<stockVars, orders, invoices, outstanding, seqs, payVars, inflight>>

delete_purchase_order(id) ==
  IF id \notin DOMAIN pos \/ pos[id].deleted
  THEN /\ resp' = Resp(404, <<>>)
       /\ UNCHANGED <<stockVars, orders, pos, invoices, outstanding, seqs, payVars, inflight>>
  ELSE IF pos[id].status \notin {"draft"}
  THEN /\ resp' = Resp(400, <<>>)
       /\ UNCHANGED <<stockVars, orders, pos, invoices, outstanding, seqs, payVars, inflight>>
  ELSE /\ pos' = [pos EXCEPT ![id].deleted = TRUE]
       /\ resp' = Resp(200, <<>>)
       /\ UNCHANGED <<stockVars, orders, invoices, outstanding, seqs, payVars, inflight>>

\* ------------------------------------------ order.py: create sales order
\* item_discount = qty * unit_price * discount_pct / 100
Discount4(item) == item.quantity * item.unit_price * item.discount_percent * 100

\* the totals create_sales_order accumulates over the lines of found products
RECURSIVE SalesOrderLoop(_, _, _)
SalesOrderLoop(items, is_interstate, st) ==
  IF items = <<>> THEN st
  ELSE LET item == Head(items)
           st2 == IF item.product_id \notin Products THEN st
                  ELSE [subtotal |-> st.subtotal + Taxable4(item),
                        total_discount |-> st.total_discount + Discount4(item),
                        total_tax |-> st.total_tax + LineTax4(item, is_interstate),
                        items |-> Append(st.items,
                                    [product_id |-> item.product_id,
                                     quantity |-> item.quantity,
                                     taxable_amount |-> Taxable4(item)])]
       IN SalesOrderLoop(Tail(items), is_interstate, st2)

create_sales_order(data) ==
  IF data.customer_id = NULL \/ data.items = <<>>
  THEN /\ resp' = Resp(400, <<>>)
       /\ UNCHANGED <<stockVars, orders, pos, invoices, outstanding, seqs, payVars, inflight>>
  ELSE IF data.customer_id \notin Customers
  THEN /\ resp' = Resp(404, <<>>)
       /\ UNCHANGED <<stockVars, orders, pos, invoices, outstanding, seqs, payVars, inflight>>
  ELSE LET st == SalesOrderLoop(data.items, data.is_interstate,
                   [subtotal |-> 0, total_discount |-> 0, total_tax |-> 0, items |-> <<>>])
           total_amount == st.subtotal + st.total_tax + data.charges * Scale
           order == [status |-> "draft", warehouse_id |-> data.warehouse_id,
                     customer_id |-> data.customer_id, items |-> st.items,
                     subtotal |-> st.subtotal, discount_amount |-> st.total_discount,
                     taxable_amount |-> st.subtotal - st.total_discount,
                     total_tax |-> st.total_tax, charges |-> data.charges * Scale,
                     round_off |-> RoundHalfEven(total_amount) * Scale - total_amount,
                     grand_total |-> RoundHalfEven(total_amount)]
       IN /\ orders' = Append(orders, order)
          /\ resp' = Resp(201, <<>>)
          /\ UNCHANGED <<stockVars, pos, invoices, outstanding, seqs, payVars, inflight>>

\* the "Deduct stock if warehouse provided" block of one line
DeductItem(item, warehouse_id, sales_order_id, invoice_id, st) ==
  LET p == item.product_id
      row == StockRow(st.stock, p, warehouse_id)
  IN IF row.present
     THEN LET balance_before == row.quantity
              deduct_qty == item.quantity
              reserved == IF sales_order_id # NULL
                          THEN Max(0, row.reserved_quantity
                                        - Min(deduct_qty, row.reserved_quantity))
                          ELSE row.reserved_quantity
              quantity == Max(0, balance_before - deduct_qty)
              txn == Txn("SALE", Len(st.txns) + 1, p, warehouse_id, "sale", deduct_qty,
                         balance_before, quantity, "invoice", invoice_id)
              stock2 == [st.stock EXCEPT ![<<p, warehouse_id>>] =
                           [row EXCEPT !.reserved_quantity = reserved,
                                       !.quantity = quantity,
                                       !.available_quantity = quantity - reserved]]
          IN [st EXCEPT !.stock = stock2,
                        !.txns = Append(st.txns, txn),
                        !.current_stock = [st.current_stock EXCEPT ![p] = TotalStock(stock2, p)]]
     ELSE st

\* one pass of create_invoice's item loop for a found product
InvoiceItem(item, data, invoice_id, st) ==
  LET st2 == [st EXCEPT !.subtotal = st.subtotal + Taxable4(item),
                        !.total_tax = st.total_tax + LineTax4(item, data.is_interstate)]
  IN IF data.warehouse_id # NULL /\ TrackInventory(item.product_id)
     THEN DeductItem(item, data.warehouse_id, data.sales_order_id, invoice_id, st2)
     ELSE st2

RECURSIVE InvoiceLoop(_, _, _, _)
InvoiceLoop(items, data, invoice_id, st) ==
  IF items = <<>> THEN st
  ELSE LET item == Head(items)
           st2 == IF item.product_id \notin Products THEN st
                  ELSE InvoiceItem(item, data, invoice_id, st)
       IN InvoiceLoop(Tail(items), data, invoice_id, st2)

\* create_invoice from the number draw to the commit, on the sequence value
\* and the customer balance this session read
InvoiceWrite(data, seq_seen, out_seen) ==
  LET number == get_next_number(seq_seen)
      invoice_id == Len(invoices) + 1
      st == InvoiceLoop(data.items, data, invoice_id,
              [stock |-> stock, txns |-> txns, current_stock |-> current_stock,
               subtotal |-> 0, total_tax |-> 0])
      total_amount == st.subtotal + st.total_tax + data.charges * Scale
      final_total == RoundHalfEven(total_amount)
      invoice == [invoice_number |-> <<"INV", number>>,
                  source_type |-> "NULL",
                  sales_order_id |-> data.sales_order_id,
                  customer_id |-> data.customer_id,
                  grand_total |-> 0, total_amount |-> final_total,
                  paid_amount |-> 0, balance_due |-> final_total,
                  credit_note_amount |-> 0, status |-> "draft",
                  payment_status |-> "unpaid"]
  IN /\ seqs' = [seqs EXCEPT !["invoice"] = number]
     /\ invoices' = Append(invoices, invoice)
     /\ stock' = st.stock
     /\ txns' = st.txns
     /\ current_stock' = st.current_stock
     /\ outstanding' = [outstanding EXCEPT ![data.customer_id] = out_seen + final_total]
     /\ UNCHANGED <<payVars, orders, pos>>

\* the StockTransaction rows as create_invoice's item loop leaves them
InvoiceTxns(data) ==
  InvoiceLoop(data.items, data, Len(invoices) + 1,
              [stock |-> stock, txns |-> txns, current_stock |-> current_stock,
               subtotal |-> 0, total_tax |-> 0]).txns

create_invoice(data) ==
  IF data.customer_id = NULL \/ data.items = <<>>
  THEN /\ resp' = Resp(400, <<>>)
       /\ UNCHANGED <<payVars, inflight, stockVars, orders, pos, invoices, outstanding, seqs>>
  ELSE IF data.customer_id \notin Customers
  THEN /\ resp' = Resp(404, <<>>)
       /\ UNCHANGED <<payVars, inflight, stockVars, orders, pos, invoices, outstanding, seqs>>
  ELSE IF DuplicateNumbers(InvoiceTxns(data))
  THEN /\ resp' = Resp(500, <<>>)
       /\ UNCHANGED <<payVars, inflight, stockVars, orders, pos, invoices, outstanding, seqs>>
  ELSE /\ InvoiceWrite(data, seqs["invoice"], outstanding[data.customer_id])
       /\ resp' = Resp(201, <<>>)
       /\ UNCHANGED inflight

\* ------------------------------------------------------ payment.py: payments
\* the balances a payment can touch
Ledger(inv, po, out, pay, bk) ==
  [invoices |-> inv, pos |-> po, outstanding |-> out, payable |-> pay, bank |-> bk]
NoHist == [payment_id |-> NULL, pre |-> <<>>, post |-> <<>>,
           order_id |-> NULL, stock_pre |-> <<>>, stock_post |-> <<>>]

\* invoice.balance_due = grand_total - paid_amount - credit_note_amount
BalanceDue(invoice) == invoice.grand_total - invoice.paid_amount - invoice.credit_note_amount

\* "Update invoice" of create_payment and allocate_payment
PayInvoice(invoice, alloc_amount) ==
  LET paid == [invoice EXCEPT !.paid_amount = @ + alloc_amount]
      due == BalanceDue(paid)
  IN [paid EXCEPT !.balance_due = due,
                  !.status = IF due <= 0 THEN "paid" ELSE "partial",
                  !.payment_status = IF due <= 0 THEN "paid" ELSE "partial"]

Allocation(type, id, amount) ==
  [document_type |-> type, document_id |-> id, allocated_amount |-> amount]

\* allocations of other completed payments to a purchase order
ExistingPOAllocs(po_id, pays) ==
  SumOver(DOMAIN pays,
          [i \in DOMAIN pays |->
             IF pays[i].status = "completed"
             THEN SumSeq([k \in DOMAIN pays[i].allocations |->
                            IF /\ pays[i].allocations[k].document_type = "purchase_order"
                               /\ pays[i].allocations[k].document_id = po_id
                            THEN pays[i].allocations[k].allocated_amount ELSE 0])
             ELSE 0])

\* grand_total of the approved, applied or partial debit notes of a purchase order
DebitNoteAmount(po_id) ==
  SumSeq([i \in DOMAIN debit_notes |->
            IF /\ debit_notes[i].purchase_order_id = po_id
               /\ debit_notes[i].status \in {"approved", "applied", "partial"}
            THEN debit_notes[i].grand_total ELSE 0])

\* one pass of create_payment's allocation loop, customer branch
AllocCustomer(alloc, st) ==
  IF alloc.invoice_id \notin DOMAIN st.invoices THEN st
  ELSE LET invoice == st.invoices[alloc.invoice_id]
           balance == invoice.balance_due
           alloc_amount == IF alloc.amount > balance THEN balance ELSE alloc.amount
       IN IF alloc_amount <= 0 THEN st
          ELSE [st EXCEPT
                  !.allocations = Append(@, Allocation("invoice", alloc.invoice_id, alloc_amount)),
                  !.invoices = [@ EXCEPT ![alloc.invoice_id] = PayInvoice(invoice, alloc_amount)],
                  !.allocated_amount = @ + alloc_amount]

\* one pass of create_payment's allocation loop, supplier branch
AllocSupplier(alloc, st) ==
  LET po_id == alloc.invoice_id
  IN IF po_id = NULL \/ po_id \notin DOMAIN st.pos \/ st.pos[po_id].deleted THEN st
     ELSE LET po == st.pos[po_id]
              alloc_amount == alloc.amount
              total_paid == alloc_amount + ExistingPOAllocs(po_id, payments)
              po_balance == po.grand_total - po.advance_amount - DebitNoteAmount(po_id)
                              - total_paid
          IN [st EXCEPT
                !.allocations = Append(@, Allocation("purchase_order", po_id, alloc_amount)),
                !.purchase_order_id = po_id,
                !.pos = [@ EXCEPT ![po_id].payment_status =
                                    IF po_balance <= 0 THEN "paid" ELSE "partial"],
                !.allocated_amount = @ + alloc_amount]

RECURSIVE AllocLoop(_, _, _)
AllocLoop(allocs, party_type, st) ==
  IF allocs = <<>> THEN st
  ELSE AllocLoop(Tail(allocs), party_type,
                 IF party_type = "customer" THEN AllocCustomer(Head(allocs), st)
                 ELSE AllocSupplier(Head(allocs), st))

\* create_payment from the number draw to the commit, on the sequence value
\* and the party balance this session read
PaymentWrite(data, seq_seen, balance_seen) ==
  LET party_type == data.party_type
      amount == data.amount
      payment_type == IF party_type = "customer" THEN "receipt" ELSE "payout"
      number == get_next_number(seq_seen)
      st == AllocLoop(data.allocations, party_type,
              [invoices |-> invoices, pos |-> pos, allocations |-> <<>>,
               purchase_order_id |-> NULL, allocated_amount |-> 0])
      outstanding2 == IF party_type = "customer"
                      THEN [outstanding EXCEPT ![data.party_id] = balance_seen - amount]
                      ELSE outstanding
      payable2 == IF party_type = "customer" THEN payable
                  ELSE [payable EXCEPT ![data.party_id] = balance_seen - amount]
      bank2 == IF data.bank_account_id \in BankAccounts
               THEN [bank EXCEPT ![data.bank_account_id] =
                       IF payment_type = "receipt" THEN @ + amount ELSE @ - amount]
               ELSE bank
      payment == [payment_number |-> <<"PAY", number>>,
                  payment_type |-> payment_type, party_type |-> party_type,
                  customer_id |-> IF party_type = "customer" THEN data.party_id ELSE NULL,
                  supplier_id |-> IF party_type = "supplier" THEN data.party_id ELSE NULL,
                  amount |-> amount, bank_account_id |-> data.bank_account_id,
                  status |-> "completed", purchase_order_id |-> st.purchase_order_id,
                  allocations |-> st.allocations,
                  allocated_amount |-> st.allocated_amount,
                  unallocated_amount |-> amount - st.allocated_amount]
  IN /\ seqs' = [seqs EXCEPT !["payment"] = number]
     /\ payments' = Append(payments, payment)
     /\ invoices' = st.invoices
     /\ pos' = st.pos
     /\ outstanding' = outstanding2
     /\ payable' = payable2
     /\ bank' = bank2
     /\ hist' = [hist EXCEPT
                   !.payment_id = Len(payments) + 1,
                   !.pre = Ledger(invoices, pos, outstanding, payable, bank),
                   !.post = Ledger(st.invoices, st.pos, outstanding2, payable2, bank2)]
     /\ UNCHANGED <<stockVars, orders, credit_notes, debit_notes, quotations>>

\* the party row create_payment looks up, 0 when there is none
PartyBalance(data) ==
  IF data.party_type = "customer" THEN outstanding[data.party_id] ELSE payable[data.party_id]

PartyFound(data) ==
  IF data.party_type = "customer" THEN data.party_id \in Customers
  ELSE data.party_id \in Suppliers

\* create_payment with the payment number drawn, and its sequence row saved,
\* before the party is looked up
NumberBeforeParty(data) ==
  IF data.party_type = "" \/ data.party_id = NULL \/ data.amount = 0
  THEN /\ resp' = Resp(400, <<>>)
       /\ UNCHANGED <<stockVars, orders, pos, invoices, outstanding, seqs, payVars, inflight>>
  ELSE IF ~PartyFound(data)
  THEN /\ seqs' = [seqs EXCEPT !["payment"] = @ + 1]
       /\ resp' = Resp(404, <<>>)
       /\ UNCHANGED <<stockVars, orders, pos, invoices, outstanding, payVars, inflight>>
  ELSE /\ PaymentWrite(data, seqs["payment"], PartyBalance(data))
       /\ resp' = Resp(201, <<>>)
       /\ UNCHANGED inflight

create_payment(data) ==
  IF data.party_type = "" \/ data.party_id = NULL \/ data.amount = 0
  THEN /\ resp' = Resp(400, <<>>)
       /\ UNCHANGED <<stockVars, orders, pos, invoices, outstanding, seqs, payVars, inflight>>
  ELSE IF ~PartyFound(data)
  THEN /\ resp' = Resp(404, <<>>)
       /\ UNCHANGED <<stockVars, orders, pos, invoices, outstanding, seqs, payVars, inflight>>
  ELSE /\ PaymentWrite(data, seqs["payment"], PartyBalance(data))
       /\ resp' = Resp(201, <<>>)
       /\ UNCHANGED inflight

\* one pass of allocate_payment's loop
AllocateItem(alloc, available, st) ==
  IF alloc.amount <= 0 THEN st
  ELSE LET capped == IF st.total_allocated + alloc.amount > available
                     THEN available - st.total_allocated ELSE alloc.amount
       IN IF capped <= 0 THEN [st EXCEPT !.stop = TRUE]
          ELSE IF alloc.invoice_id \notin DOMAIN st.invoices THEN st
          ELSE LET invoice == st.invoices[alloc.invoice_id]
                   balance == invoice.balance_due
                   alloc_amount == IF capped > balance THEN balance ELSE capped
               IN [st EXCEPT
                     !.allocations =
                        Append(@, Allocation("invoice", alloc.invoice_id, alloc_amount)),
                     !.invoices = [@ EXCEPT ![alloc.invoice_id] = PayInvoice(invoice, alloc_amount)],
                     !.total_allocated = @ + alloc_amount]

RECURSIVE AllocateLoop(_, _, _)
AllocateLoop(allocs, available, st) ==
  IF allocs = <<>> \/ st.stop THEN st
  ELSE AllocateLoop(Tail(allocs), available, AllocateItem(Head(allocs), available, st))

allocate_payment(id, allocations) ==
  IF id \notin DOMAIN payments
  THEN /\ resp' = Resp(404, <<>>)
       /\ UNCHANGED <<stockVars, orders, pos, invoices, outstanding, seqs, payVars, inflight>>
  ELSE LET payment == payments[id]
           available == payment.unallocated_amount
       IN IF available <= 0
          THEN /\ resp' = Resp(400, <<>>)
               /\ UNCHANGED <<stockVars, orders, pos, invoices, outstanding, seqs, payVars,
                              inflight>>
          ELSE LET st == AllocateLoop(allocations, available,
                           [invoices |-> invoices, allocations |-> payment.allocations,
                            total_allocated |-> 0, stop |-> FALSE])
                   allocated == payment.allocated_amount + st.total_allocated
               IN /\ invoices' = st.invoices
                  /\ payments' = [payments EXCEPT
                                    ![id].allocations = st.allocations,
                                    ![id].allocated_amount = allocated,
                                    ![id].unallocated_amount = payment.amount - allocated]
                  /\ resp' = Resp(200, <<>>)
                  /\ UNCHANGED <<stockVars, orders, pos, outstanding, seqs, credit_notes,
                                 debit_notes, payable, bank, hist, quotations, inflight>>

\* "Reverse allocations" of cancel_payment for one allocation row
ReverseAlloc(alloc, invs) ==
  IF alloc.document_type = "invoice" /\ alloc.document_id \in DOMAIN invs
  THEN LET invoice == invs[alloc.document_id]
           paid == [invoice EXCEPT !.paid_amount = @ - alloc.allocated_amount]
           due == BalanceDue(paid)
       IN [invs EXCEPT ![alloc.document_id] =
             IF due > 0
             THEN [paid EXCEPT
                     !.balance_due = due,
                     !.status = IF paid.paid_amount > 0 THEN "partial" ELSE "sent",
                     !.payment_status = IF paid.paid_amount > 0 THEN "partial" ELSE "unpaid"]
             ELSE [paid EXCEPT !.balance_due = due]]
  ELSE invs

RECURSIVE ReverseLoop(_, _)
ReverseLoop(allocs, invs) ==
  IF allocs = <<>> THEN invs
  ELSE ReverseLoop(Tail(allocs), ReverseAlloc(Head(allocs), invs))

cancel_payment(id) ==
  IF id \notin DOMAIN payments
  THEN /\ resp' = Resp(404, <<>>)
       /\ UNCHANGED <<stockVars, orders, pos, invoices, outstanding, seqs, payVars, inflight>>
  ELSE LET payment == payments[id] IN
    IF payment.status = "cancelled"
    THEN /\ resp' = Resp(400, <<>>)
         /\ UNCHANGED <<stockVars, orders, pos, invoices, outstanding, seqs, payVars, inflight>>
    ELSE /\ invoices' = ReverseLoop(payment.allocations, invoices)
         /\ outstanding' = IF payment.party_type = "customer"
                            THEN [outstanding EXCEPT ![payment.customer_id] = @ + payment.amount]
                            ELSE outstanding
         /\ payable' = IF payment.party_type = "customer" THEN payable
                        ELSE [payable EXCEPT ![payment.supplier_id] = @ + payment.amount]
         /\ bank' = IF payment.bank_account_id \in BankAccounts
                     THEN [bank EXCEPT ![payment.bank_account_id] =
                             IF payment.payment_type = "receipt" THEN @ - payment.amount
                             ELSE @ + payment.amount]
                     ELSE bank
         /\ payments' = [payments EXCEPT ![id].status = "cancelled"]
         /\ resp' = Resp(200, <<>>)
         /\ UNCHANGED <<stockVars, orders, pos, seqs, credit_notes, debit_notes, hist, quotations, inflight>>

\* --------------------------------------- invoice.py: send, credit notes
send_invoice(id) ==
  IF id \notin DOMAIN invoices
  THEN /\ resp' = Resp(404, <<>>)
       /\ UNCHANGED <<stockVars, orders, pos, invoices, outstanding, seqs, payVars, inflight>>
  ELSE /\ invoices' = [invoices EXCEPT ![id].status = "sent"]
       /\ resp' = Resp(200, <<>>)
       /\ UNCHANGED <<stockVars, orders, pos, outstanding, seqs, payVars, inflight>>

\* taxable + tax of one credit note line of a catalogue product, rate defaulted
CreditLine4(item, is_interstate) ==
  LET line == [product_id |-> item.product_id, quantity |-> item.quantity,
               unit_price |-> SellingPrice(item.product_id), discount_percent |-> 0]
  IN Taxable4(line) + LineTax4(line, is_interstate)

create_credit_note(data) ==
  IF data.customer_id = NULL \/ data.items = <<>>
  THEN /\ resp' = Resp(400, <<>>)
       /\ UNCHANGED <<stockVars, orders, pos, invoices, outstanding, seqs, payVars, inflight>>
  ELSE IF data.customer_id \notin Customers
  THEN /\ resp' = Resp(404, <<>>)
       /\ UNCHANGED <<stockVars, orders, pos, invoices, outstanding, seqs, payVars, inflight>>
  ELSE LET number == get_next_number(seqs["credit_note"])
           grand_total ==
             RoundHalfEven(SumSeq([i \in DOMAIN data.items |->
                                     CreditLine4(data.items[i], data.is_interstate)]))
           credit_note == [credit_note_number |-> <<"CN", number>>,
                           customer_id |-> data.customer_id, invoice_id |-> data.invoice_id,
                           grand_total |-> grand_total, adjusted_amount |-> 0,
                           balance_amount |-> grand_total, status |-> "draft"]
       IN /\ seqs' = [seqs EXCEPT !["credit_note"] = number]
          /\ credit_notes' = Append(credit_notes, credit_note)
          /\ resp' = Resp(201, <<>>)
          /\ UNCHANGED <<stockVars, orders, pos, invoices, outstanding, payments, debit_notes,
                         payable, bank, hist, quotations, inflight>>

approve_credit_note(id) ==
  IF id \notin DOMAIN credit_notes
  THEN /\ resp' = Resp(404, <<>>)
       /\ UNCHANGED <<stockVars, orders, pos, invoices, outstanding, seqs, payVars, inflight>>
  ELSE IF credit_notes[id].status # "draft"
  THEN /\ resp' = Resp(400, <<>>)
       /\ UNCHANGED <<stockVars, orders, pos, invoices, outstanding, seqs, payVars, inflight>>
  ELSE /\ credit_notes' = [credit_notes EXCEPT ![id].status = "approved"]
       /\ resp' = Resp(200, <<>>)
       /\ UNCHANGED <<stockVars, orders, pos, invoices, outstanding, seqs, payments,
                      debit_notes, payable, bank, hist, quotations, inflight>>

\* void_invoice reads invoice.total_amount, the attribute create_invoice
\* assigns; convert_sales_order_to_invoice never assigns it
void_invoice(id) ==
  IF id \notin DOMAIN invoices
  THEN /\ resp' = Resp(404, <<>>)
       /\ UNCHANGED <<stockVars, orders, pos, invoices, outstanding, seqs, payVars, inflight>>
  ELSE IF invoices[id].paid_amount > 0
  THEN /\ resp' = Resp(400, <<>>)
       /\ UNCHANGED <<stockVars, orders, pos, invoices, outstanding, seqs, payVars, inflight>>
  ELSE LET invoice == invoices[id]
       IN /\ outstanding' = [outstanding EXCEPT ![invoice.customer_id] = @ - invoice.total_amount]
          /\ invoices' = [invoices EXCEPT ![id].status = "void"]
          /\ resp' = Resp(200, <<>>)
          /\ UNCHANGED <<stockVars, orders, pos, seqs, payVars, inflight>>

\* data.amount = NULL stands for an absent amount: the whole credit note
apply_credit_note(id, data) ==
  IF id \notin DOMAIN credit_notes
  THEN /\ resp' = Resp(404, <<>>)
       /\ UNCHANGED <<stockVars, orders, pos, invoices, outstanding, seqs, payVars, inflight>>
  ELSE LET cn == credit_notes[id]
           requested == IF data.amount = NULL THEN cn.grand_total ELSE data.amount
           available == cn.grand_total - cn.adjusted_amount
       IN IF cn.status = "draft" \/ data.invoice_id = NULL
          THEN /\ resp' = Resp(400, <<>>)
               /\ UNCHANGED <<stockVars, orders, pos, invoices, outstanding, seqs, payVars,
                              inflight>>
          ELSE IF data.invoice_id \notin DOMAIN invoices
          THEN /\ resp' = Resp(404, <<>>)
               /\ UNCHANGED <<stockVars, orders, pos, invoices, outstanding, seqs, payVars,
                              inflight>>
          ELSE IF requested > available
          THEN /\ resp' = Resp(400, <<>>)
               /\ UNCHANGED <<stockVars, orders, pos, invoices, outstanding, seqs, payVars,
                              inflight>>
          ELSE LET invoice == invoices[data.invoice_id]
                   amount == IF requested > invoice.balance_due THEN invoice.balance_due
                             ELSE requested
                   adjusted == cn.adjusted_amount + amount
                   balance_amount == cn.grand_total - adjusted
                   credited == [invoice EXCEPT !.credit_note_amount = @ + amount]
                   due == BalanceDue(credited)
               IN /\ credit_notes' = [credit_notes EXCEPT
                        ![id].adjusted_amount = adjusted,
                        ![id].balance_amount = balance_amount,
                        ![id].status = IF balance_amount <= 0 THEN "adjusted" ELSE "partial"]
                  /\ invoices' = [invoices EXCEPT ![data.invoice_id] =
                        IF due <= 0
                        THEN [credited EXCEPT !.balance_due = due, !.payment_status = "paid",
                                              !.status = "paid"]
                        ELSE [credited EXCEPT !.balance_due = due,
                                              !.payment_status = "partial"]]
                  /\ outstanding' = [outstanding EXCEPT ![cn.customer_id] = @ - amount]
                  /\ resp' = Resp(200, <<>>)
                  /\ UNCHANGED <<stockVars, orders, pos, seqs, payments, debit_notes, payable,
                                 bank, hist, quotations, inflight>>

\* ------------------------------------------------ quotation.py: quotations
\* a deleted row stays in the sequence, so that ids keep their meaning
QuotationFound(id) == id \in DOMAIN quotations /\ ~quotations[id].deleted

\* the header fields update_quotation may write are carried as notes
\* the item loop create_quotation and update_quotation share: lines of an
\* unknown product are skipped, the others add to the running totals
QuotationLoop(items, is_interstate) ==
  SalesOrderLoop(items, is_interstate,
                 [subtotal |-> 0, total_discount |-> 0, total_tax |-> 0, items |-> <<>>])

QuotationItems(items) ==
  [i \in DOMAIN items |-> [product_id |-> items[i].product_id,
                           quantity |-> items[i].quantity]]

create_quotation(data) ==
  IF data.customer_id = NULL \/ data.items = <<>>
  THEN /\ resp' = Resp(400, <<>>)
       /\ UNCHANGED <<stockVars, orders, pos, invoices, outstanding, seqs, payVars, inflight>>
  ELSE IF data.customer_id \notin Customers
  THEN /\ resp' = Resp(404, <<>>)
       /\ UNCHANGED <<stockVars, orders, pos, invoices, outstanding, seqs, payVars, inflight>>
  ELSE LET number == seqs["quotation"] + 1
           st == QuotationLoop(data.items, data.is_interstate)
           quotation ==
             [status |-> IF "status" \in DOMAIN data THEN data.status ELSE "draft",
              converted_to_order |-> FALSE, sales_order_id |-> NULL,
              customer_id |-> data.customer_id,
              grand_total |-> RoundHalfEven(st.subtotal + st.total_tax),
              notes |-> 0, deleted |-> FALSE,
              quotation_number |-> <<"QTN", number>>,
              is_interstate |-> data.is_interstate,
              items |-> QuotationItems(st.items)]
       IN /\ seqs' = [seqs EXCEPT !["quotation"] = number]
          /\ quotations' = Append(quotations, quotation)
          /\ resp' = Resp(201, <<>>)
          /\ UNCHANGED <<stockVars, orders, pos, invoices, outstanding, payments,
                         credit_notes, debit_notes, payable, bank, hist, inflight>>

update_quotation(id, data) ==
  IF ~QuotationFound(id)
  THEN /\ resp' = Resp(404, <<>>)
       /\ UNCHANGED <<stockVars, orders, pos, invoices, outstanding, seqs, payVars, inflight>>
  ELSE IF quotations[id].status \notin {"draft", "sent"}
  THEN /\ resp' = Resp(400, <<>>)
       /\ UNCHANGED <<stockVars, orders, pos, invoices, outstanding, seqs, payVars, inflight>>
  ELSE /\ quotations' =
            IF "items" \notin DOMAIN data
            THEN [quotations EXCEPT ![id].notes = data.notes]
            ELSE LET st == QuotationLoop(data.items, quotations[id].is_interstate)
                 IN [quotations EXCEPT ![id].notes = data.notes,
                                       ![id].items = QuotationItems(st.items),
                                       ![id].grand_total =
                                         RoundHalfEven(st.subtotal + st.total_tax)]
       /\ resp' = Resp(200, <<>>)
       /\ UNCHANGED <<stockVars, orders, pos, invoices, outstanding, seqs, payments,
                      credit_notes, debit_notes, payable, bank, hist, inflight>>

delete_quotation(id) ==
  IF ~QuotationFound(id)
  THEN /\ resp' = Resp(404, <<>>)
       /\ UNCHANGED <<stockVars, orders, pos, invoices, outstanding, seqs, payVars, inflight>>
  ELSE IF quotations[id].status \notin {"draft"}
  THEN /\ resp' = Resp(400, <<>>)
       /\ UNCHANGED <<stockVars, orders, pos, invoices, outstanding, seqs, payVars, inflight>>
  ELSE /\ quotations' = [quotations EXCEPT ![id].deleted = TRUE]
       /\ resp' = Resp(200, <<>>)
       /\ UNCHANGED <<stockVars, orders, pos, invoices, outstanding, seqs, payments,
                      credit_notes, debit_notes, payable, bank, hist, inflight>>

send_quotation(id) ==
  IF ~QuotationFound(id)
  THEN /\ resp' = Resp(404, <<>>)
       /\ UNCHANGED <<stockVars, orders, pos, invoices, outstanding, seqs, payVars, inflight>>
  ELSE /\ quotations' = [quotations EXCEPT ![id].status = "sent"]
       /\ resp' = Resp(200, <<>>)
       /\ UNCHANGED <<stockVars, orders, pos, invoices, outstanding, seqs, payments,
                      credit_notes, debit_notes, payable, bank, hist, inflight>>

accept_quotation(id) ==
  IF ~QuotationFound(id)
  THEN /\ resp' = Resp(404, <<>>)
       /\ UNCHANGED <<stockVars, orders, pos, invoices, outstanding, seqs, payVars, inflight>>
  ELSE IF quotations[id].status \notin {"draft", "sent"}
  THEN /\ resp' = Resp(400, <<>>)
       /\ UNCHANGED <<stockVars, orders, pos, invoices, outstanding, seqs, payVars, inflight>>
  ELSE /\ quotations' = [quotations EXCEPT ![id].status = "accepted"]
       /\ resp' = Resp(200, <<>>)
       /\ UNCHANGED <<stockVars, orders, pos, invoices, outstanding, seqs, payments,
                      credit_notes, debit_notes, payable, bank, hist, inflight>>

reject_quotation(id) ==
  IF ~QuotationFound(id)
  THEN /\ resp' = Resp(404, <<>>)
       /\ UNCHANGED <<stockVars, orders, pos, invoices, outstanding, seqs, payVars, inflight>>
  ELSE /\ quotations' = [quotations EXCEPT ![id].status = "rejected"]
       /\ resp' = Resp(200, <<>>)
       /\ UNCHANGED <<stockVars, orders, pos, invoices, outstanding, seqs, payments,
                      credit_notes, debit_notes, payable, bank, hist, inflight>>

\* the SalesOrder convert_to_order builds from the quotation
QuotationOrder(quotation) ==
  [status |-> "confirmed", warehouse_id |-> NULL, customer_id |-> quotation.customer_id,
   grand_total |-> quotation.grand_total, items |-> quotation.items]

convert_to_order(id) ==
  IF ~QuotationFound(id)
  THEN /\ resp' = Resp(404, <<>>)
       /\ UNCHANGED <<stockVars, orders, pos, invoices, outstanding, seqs, payVars, inflight>>
  ELSE IF quotations[id].status \notin {"sent", "accepted"}
  THEN /\ resp' = Resp(400, <<>>)
       /\ UNCHANGED <<stockVars, orders, pos, invoices, outstanding, seqs, payVars, inflight>>
  ELSE IF quotations[id].converted_to_order
  THEN /\ resp' = Resp(400, <<>>)
       /\ UNCHANGED <<stockVars, orders, pos, invoices, outstanding, seqs, payVars, inflight>>
  ELSE /\ orders' = Append(orders, QuotationOrder(quotations[id]))
       /\ quotations' = [quotations EXCEPT ![id].status = "converted",
                                            ![id].converted_to_order = TRUE,
                                            ![id].sales_order_id = Len(orders) + 1]
       /\ resp' = Resp(201, <<>>)
       /\ UNCHANGED <<stockVars, pos, invoices, outstanding, seqs, payments,
                      credit_notes, debit_notes, payable, bank, hist, inflight>>

\* ------------------------------------------- sales and stock: specification
\* Rows the organization holds before the first request: a draft sales
\* order on warehouse 1 and an approved purchase order.  Order totals are those create_sales_order computes for the lines.
SeedOrders ==
  << [status |-> "draft", warehouse_id |-> 1, customer_id |-> 1, grand_total |-> 404,
      items |-> << [product_id |-> 1, quantity |-> 1], [product_id |-> 2, quantity |-> 1],
                   [product_id |-> 1, quantity |-> 2] >>] >>

SeedPOs ==
  << [status |-> "approved", supplier_id |-> 1, grand_total |-> 300, advance_amount |-> 0,
      payment_status |-> "unpaid", order_number |-> <<"POyymm", 1>>, deleted |-> FALSE,
      items |-> << [product_id |-> 1, quantity |-> 2, received_quantity |-> 0],
                   [product_id |-> 1, quantity |-> 1, received_quantity |-> 0] >>] >>

SeqTypes == {"invoice", "credit_note", "debit_note", "payment", "quotation"}

Init ==
  /\ stock = [k \in Products \X Warehouses |-> NoStock]
  /\ txns = <<>>
  /\ current_stock = [p \in Products |-> 0]
  /\ orders = SeedOrders
  /\ pos = SeedPOs
  /\ invoices = <<>>
  /\ outstanding = [c \in Customers |-> 0]
  /\ seqs = [t \in SeqTypes |-> 0]
  /\ payments = <<>>
  /\ credit_notes = <<>>
  /\ debit_notes = <<>>
  /\ hist = NoHist
  /\ quotations = <<>>
  /\ payable = [s \in Suppliers |-> 0]
  /\ bank = [b \in BankAccounts |-> 0]
  /\ inflight = <<>>
  /\ resp = Resp(0, <<>>)

ReceiveInputs ==
  {<<>>, << [item_id |-> UnknownId, quantity |-> 1] >>, << [item_id |-> 1, quantity |-> 0] >>}
    \cup {<< [item_id |-> k, quantity |-> q] >> : k \in {1, 2}, q \in {1, MaxQty}}
    \cup {<< [item_id |-> 1, quantity |-> MaxQty], [item_id |-> 2, quantity |-> MaxQty] >>}

InvoiceInputs ==
  {[customer_id |-> c, items |-> << [product_id |-> p, quantity |-> q,
                                     unit_price |-> SellingPrice(p), discount_percent |-> 0] >>,
    warehouse_id |-> w, sales_order_id |-> so, is_interstate |-> FALSE, charges |-> 0] :
      c \in Customers, p \in {1}, q \in Qtys, w \in {NULL, 1}, so \in {NULL, 1}}

\* the bounds of the exploration: ledger length, row quantity, documents
Bounded ==
  /\ Len(txns') <= MaxTxns
  /\ Cardinality({i \in DOMAIN txns' : txns'[i].transaction_type = "adjustment"})
       <= MaxAdjustments
  /\ Len(invoices') <= MaxInvoices
  /\ \A k \in DOMAIN stock : stock'[k].quantity <= MaxStock

Next ==
  \/ \E w \in Warehouses, items \in AdjustInputs : create_adjustment(w, items) /\ Bounded
  \/ \E from \in Warehouses, to \in Warehouses, p \in {1}, qty \in Qtys :
       transfer_stock(from, to, p, qty) /\ Bounded
  \/ \E id \in DOMAIN pos, w \in Warehouses, r \in ReceiveInputs :
       receive_purchase_order(id, w, r) /\ Bounded
  \/ \E id \in DOMAIN orders : confirm_sales_order(id) /\ Bounded
  \/ \E id \in DOMAIN orders : cancel_sales_order(id) /\ Bounded
  \/ \E id \in DOMAIN orders : ship_sales_order(id)
  \/ \E id \in DOMAIN orders : convert_sales_order_to_invoice(id) /\ Bounded
  \/ \E data \in InvoiceInputs : create_invoice(data) /\ Bounded

Spec == Init /\ [][Next]_vars

\* ------------------------------------------------- payments: specification
\* Rows the organization holds before the first request: a confirmed sales
\* order without a warehouse (as create_sales_order and confirm leave it) and
\* an approved purchase order.
PayOrders ==
  << [status |-> "confirmed", warehouse_id |-> NULL, customer_id |-> 1, grand_total |-> 118,
      items |-> << [product_id |-> 1, quantity |-> 1] >>] >>

InitPay ==
  /\ stock = [k \in Products \X Warehouses |-> NoStock]
  /\ txns = <<>>
  /\ current_stock = [p \in Products |-> 0]
  /\ orders = PayOrders
  /\ pos = SeedPOs
  /\ invoices = <<>>
  /\ outstanding = [c \in Customers |-> 0]
  /\ seqs = [t \in SeqTypes |-> 0]
  /\ payments = <<>>
  /\ credit_notes = <<>>
  /\ debit_notes = <<>>
  /\ hist = NoHist
  /\ quotations = <<>>
  /\ payable = [s \in Suppliers |-> 0]
  /\ bank = [b \in BankAccounts |-> 0]
  /\ inflight = <<>>
  /\ resp = Resp(0, <<>>)

PayInvoiceInputs ==
  {[customer_id |-> 1, items |-> << [product_id |-> 1, quantity |-> 1,
                                     unit_price |-> SellingPrice(1), discount_percent |-> 0] >>,
    warehouse_id |-> NULL, sales_order_id |-> NULL, is_interstate |-> FALSE, charges |-> 0]}

\* allocation requests below and above a document total; for a supplier
\* payment invoice_id carries the purchase order id
AllocInputs ==
  {<<>>} \cup {<< [invoice_id |-> d, amount |-> a] >> : d \in 1..MaxInvoices, a \in {50, 400}}

\* receipts below and at an invoice total of 118, and a payout
PaymentInputs ==
  {[party_type |-> "customer", party_id |-> 1, amount |-> a, bank_account_id |-> 1,
    allocations |-> al] : a \in {50, 118}, al \in AllocInputs}
  \cup
  {[party_type |-> "supplier", party_id |-> 1, amount |-> 50, bank_account_id |-> b,
    allocations |-> al] : b \in {NULL, 1}, al \in AllocInputs}

CreditNoteInputs ==
  {[customer_id |-> 1, invoice_id |-> NULL, is_interstate |-> FALSE,
    items |-> << [product_id |-> 1, quantity |-> 1] >>]}

ApplyInputs ==
  {[invoice_id |-> d, amount |-> a] : d \in 1..MaxInvoices, a \in {NULL, 50}}

PayBounded ==
  /\ Len(invoices') <= MaxInvoices
  /\ Len(payments') <= MaxPayments
  /\ \A i \in DOMAIN payments' : Len(payments'[i].allocations) <= MaxAllocations
  /\ Len(credit_notes') <= MaxCreditNotes
  /\ \A c \in Customers : outstanding'[c] >= 0 - MaxOverpaid

NextPay ==
  \/ \E id \in DOMAIN orders : convert_sales_order_to_invoice(id) /\ PayBounded
  \/ \E data \in PayInvoiceInputs : create_invoice(data) /\ PayBounded
  \/ \E id \in DOMAIN invoices : send_invoice(id)
  \/ \E id \in DOMAIN invoices \cup {UnknownId} : void_invoice(id) /\ PayBounded
  \/ \E data \in PaymentInputs : create_payment(data) /\ PayBounded
  \/ \E id \in DOMAIN payments, al \in AllocInputs : allocate_payment(id, al) /\ PayBounded
  \/ \E id \in DOMAIN payments : cancel_payment(id)
  \/ \E data \in CreditNoteInputs : create_credit_note(data) /\ PayBounded
  \/ \E id \in DOMAIN credit_notes : approve_credit_note(id)
  \/ \E id \in DOMAIN credit_notes, data \in ApplyInputs : apply_credit_note(id, data)

SpecPay == InitPay /\ [][NextPay]_vars

\* ------------------------------------------------- concurrent requests
\* Each request runs in its own session on a READ COMMITTED database
\* (config.py: PostgreSQL).  A session keeps the rows it has loaded and, at
\* commit, writes the attributes it changed with the values it computed from
\* them.  A request is therefore split where another session can commit in
\* between: after its first reads, and after its transaction count.
Request(op, arg, stock_seen, seq_seen, balance_seen) ==
  [op |-> op, arg |-> arg, phase |-> "read", stock_seen |-> stock_seen,
   txn_count |-> 0, seq_seen |-> seq_seen, balance_seen |-> balance_seen]

InPhase(r, op, phase) ==
  r \in DOMAIN inflight /\ inflight[r].op = op /\ inflight[r].phase = phase

\* confirm_sales_order up to the end of its validation loop
BeginConfirm(id) ==
  IF ConfirmRejection(id, stock).code # 0
  THEN /\ resp' = ConfirmRejection(id, stock)
       /\ UNCHANGED <<payVars, inflight, stockVars, orders, pos, invoices, outstanding, seqs>>
  ELSE /\ inflight' = Append(inflight, Request("confirm_sales_order", id, stock, 0, 0))
       /\ UNCHANGED <<payVars, resp, stockVars, orders, pos, invoices, outstanding, seqs>>

\* txn_count = StockTransaction.query.filter_by(organization_id=...).count()
CountConfirm(r) ==
  /\ InPhase(r, "confirm_sales_order", "read")
  /\ inflight' = [inflight EXCEPT ![r].txn_count = Len(txns), ![r].phase = "counted"]
  /\ UNCHANGED <<payVars, resp, stockVars, orders, pos, invoices, outstanding, seqs>>

\* the transaction numbers the reserve loop of request r will insert
ConfirmNumbers(r) ==
  LET order == orders[inflight[r].arg]
      n == IF order.warehouse_id # NULL
           THEN Len(ItemsToReserve(order, inflight[r].stock_seen)) ELSE 0
  IN {<<"RES", inflight[r].txn_count + idx + 1>> : idx \in 0..(n - 1)}

\* the reserve loop and db.session.commit(); a transaction number that a
\* committed session already inserted violates uq_stock_txn_number
CommitConfirm(r) ==
  /\ InPhase(r, "confirm_sales_order", "counted")
  /\ IF ConfirmNumbers(r) \cap TxnNumbers(txns) # {}
     THEN /\ inflight' = [inflight EXCEPT ![r].phase = "failed"]
          /\ resp' = Resp(500, <<>>)
          /\ UNCHANGED <<payVars, stockVars, orders, pos, invoices, outstanding, seqs>>
     ELSE /\ ConfirmWrite(inflight[r].arg, inflight[r].stock_seen, inflight[r].txn_count)
          /\ inflight' = [inflight EXCEPT ![r].phase = "done"]
          /\ resp' = Resp(200, <<>>)

\* create_invoice up to get_next_number: the customer and the sequence row
\* are loaded
BeginInvoice(data) ==
  IF data.customer_id = NULL \/ data.items = <<>>
  THEN /\ resp' = Resp(400, <<>>)
       /\ UNCHANGED <<payVars, inflight, stockVars, orders, pos, invoices, outstanding, seqs>>
  ELSE IF data.customer_id \notin Customers
  THEN /\ resp' = Resp(404, <<>>)
       /\ UNCHANGED <<payVars, inflight, stockVars, orders, pos, invoices, outstanding, seqs>>
  ELSE /\ inflight' = Append(inflight, Request("create_invoice", data, <<>>,
                                                 seqs["invoice"], outstanding[data.customer_id]))
       /\ UNCHANGED <<payVars, resp, stockVars, orders, pos, invoices, outstanding, seqs>>

\* create_invoice from db.session.flush() to db.session.commit().  The
\* invoice number is not checked: financial_year_id is NULL, and rows with a
\* NULL column never collide in uq_invoice_number.
CommitInvoice(r) ==
  /\ InPhase(r, "create_invoice", "read")
  /\ InvoiceWrite(inflight[r].arg, inflight[r].seq_seen, inflight[r].balance_seen)
  /\ inflight' = [inflight EXCEPT ![r].phase = "done"]
  /\ resp' = Resp(201, <<>>)

\* create_payment up to get_next_payment_number: the party and the sequence
\* row are loaded
BeginPayment(data) ==
  IF data.party_type = "" \/ data.party_id = NULL \/ data.amount = 0
  THEN /\ resp' = Resp(400, <<>>)
       /\ UNCHANGED <<stockVars, orders, pos, invoices, outstanding, seqs, payVars, inflight>>
  ELSE IF ~PartyFound(data)
  THEN /\ resp' = Resp(404, <<>>)
       /\ UNCHANGED <<stockVars, orders, pos, invoices, outstanding, seqs, payVars, inflight>>
  ELSE /\ inflight' = Append(inflight, Request("create_payment", data, <<>>,
                                                 seqs["payment"], PartyBalance(data)))
       /\ UNCHANGED <<payVars, resp, stockVars, orders, pos, invoices, outstanding, seqs>>

\* create_payment from db.session.flush() to db.session.commit()
CommitPayment(r) ==
  /\ InPhase(r, "create_payment", "read")
  /\ PaymentWrite(inflight[r].arg, inflight[r].seq_seen, inflight[r].balance_seen)
  /\ inflight' = [inflight EXCEPT ![r].phase = "done"]
  /\ resp' = Resp(201, <<>>)

\* Rows the organization holds before the first request: warehouse 1 holds
\* two units of product 1, put there by a stock adjustment, and two draft
\* sales orders each ask for two.
ConcOrders ==
  << [status |-> "draft", warehouse_id |-> 1, customer_id |-> 1, grand_total |-> 236,
      items |-> << [product_id |-> 1, quantity |-> 2] >>],
     [status |-> "draft", warehouse_id |-> 1, customer_id |-> 1, grand_total |-> 236,
      items |-> << [product_id |-> 1, quantity |-> 2] >>] >>

ConcStock == AdjustLoop(<< [product_id |-> 1, new_quantity |-> 2] >>, 1,
                        [stock |-> [k \in Products \X Warehouses |-> NoStock],
                         txns |-> <<>>, current_stock |-> [p \in Products |-> 0]])

InitConc ==
  /\ stock = ConcStock.stock
  /\ txns = ConcStock.txns
  /\ current_stock = ConcStock.current_stock
  /\ orders = ConcOrders
  /\ pos = SeedPOs
  /\ invoices = <<>>
  /\ outstanding = [c \in Customers |-> 0]
  /\ seqs = [t \in SeqTypes |-> 0]
  /\ payments = <<>>
  /\ credit_notes = <<>>
  /\ debit_notes = <<>>
  /\ hist = NoHist
  /\ quotations = <<>>
  /\ payable = [s \in Suppliers |-> 0]
  /\ bank = [b \in BankAccounts |-> 0]
  /\ inflight = <<>>
  /\ resp = Resp(0, <<>>)

ConcPaymentInputs ==
  {[party_type |-> "customer", party_id |-> 1, amount |-> 50, bank_account_id |-> 1,
    allocations |-> al] : al \in {<<>>, << [invoice_id |-> 1, amount |-> 50] >>}}

ConcBounded == Len(inflight') <= MaxRequests

NextConc ==
  \/ \E id \in DOMAIN orders : BeginConfirm(id) /\ ConcBounded
  \/ \E r \in DOMAIN inflight : CountConfirm(r)
  \/ \E r \in DOMAIN inflight : CommitConfirm(r)
  \/ \E data \in PayInvoiceInputs : BeginInvoice(data) /\ ConcBounded
  \/ \E r \in DOMAIN inflight : CommitInvoice(r)
  \/ \E data \in ConcPaymentInputs : BeginPayment(data) /\ ConcBounded
  \/ \E r \in DOMAIN inflight : CommitPayment(r)

SpecConc == InitConc /\ [][NextConc]_vars

\* --------------------------------------- order to invoice: specification
\* Rows the organization holds before the first request: warehouse 1 holds
\* MaxStock units of product 1, put there by a stock adjustment, and a draft
\* sales order asks for one.
ConvOrders ==
  << [status |-> "draft", warehouse_id |-> 1, customer_id |-> 1, grand_total |-> 118,
      items |-> << [product_id |-> 1, quantity |-> 1] >>] >>

ConvStock == AdjustLoop(<< [product_id |-> 1, new_quantity |-> MaxStock] >>, 1,
                        [stock |-> [k \in Products \X Warehouses |-> NoStock],
                         txns |-> <<>>, current_stock |-> [p \in Products |-> 0]])

InitConv ==
  /\ stock = ConvStock.stock
  /\ txns = ConvStock.txns
  /\ current_stock = ConvStock.current_stock
  /\ orders = ConvOrders
  /\ pos = SeedPOs
  /\ invoices = <<>>
  /\ outstanding = [c \in Customers |-> 0]
  /\ seqs = [t \in SeqTypes |-> 0]
  /\ payments = <<>>
  /\ credit_notes = <<>>
  /\ debit_notes = <<>>
  /\ hist = NoHist
  /\ quotations = <<>>
  /\ payable = [s \in Suppliers |-> 0]
  /\ bank = [b \in BankAccounts |-> 0]
  /\ inflight = <<>>
  /\ resp = Resp(0, <<>>)

ConvBounded ==
  /\ Len(invoices') <= MaxOrderInvoices
  /\ \A c \in Customers : outstanding'[c] >= 0

NextConv ==
  \/ \E id \in DOMAIN orders : confirm_sales_order(id)
  \/ \E id \in DOMAIN orders : cancel_sales_order(id)
  \/ \E id \in DOMAIN orders : ship_sales_order(id)
  \/ \E id \in DOMAIN orders : convert_sales_order_to_invoice(id) /\ ConvBounded
  \/ \E data \in InvoiceInputs : create_invoice(data) /\ ConvBounded
  \/ \E id \in DOMAIN invoices : void_invoice(id) /\ ConvBounded

SpecConv == InitConv /\ [][NextConv]_vars

\* ----------------------------------------------- quotations: specification
\* Rows the organization holds before the first request: two draft
\* quotations for customer 1, neither converted.
SeedQuotations ==
  [q \in 1..2 |->
     [status |-> "draft", converted_to_order |-> FALSE, sales_order_id |-> NULL,
      customer_id |-> 1, grand_total |-> 118, notes |-> 0, deleted |-> FALSE,
      quotation_number |-> <<"QTN", q>>, is_interstate |-> FALSE,
      items |-> << [product_id |-> 1, quantity |-> 1] >>]]

InitQuote ==
  /\ stock = [k \in Products \X Warehouses |-> NoStock]
  /\ txns = <<>>
  /\ current_stock = [p \in Products |-> 0]
  /\ orders = <<>>
  /\ pos = SeedPOs
  /\ invoices = <<>>
  /\ outstanding = [c \in Customers |-> 0]
  /\ seqs = [t \in SeqTypes |-> IF t = "quotation" THEN Len(SeedQuotations) ELSE 0]
  /\ payments = <<>>
  /\ credit_notes = <<>>
  /\ debit_notes = <<>>
  /\ hist = NoHist
  /\ quotations = SeedQuotations
  /\ payable = [s \in Suppliers |-> 0]
  /\ bank = [b \in BankAccounts |-> 0]
  /\ inflight = <<>>
  /\ resp = Resp(0, <<>>)

QuoteItems(q) ==
  << [product_id |-> 1, quantity |-> q, unit_price |-> SellingPrice(1),
      discount_percent |-> 0] >>

QuoteUpdates ==
  { [notes |-> 1], [notes |-> 1, items |-> QuoteItems(2)] }

\* requests for a new quotation: the body may name the status to store
QuotationInputs ==
  { [customer_id |-> 1, is_interstate |-> FALSE, items |-> QuoteItems(1)],
    [customer_id |-> 1, is_interstate |-> FALSE, items |-> QuoteItems(1),
     status |-> "accepted"] }

QuoteBounded == Len(orders') <= MaxQuoteOrders /\ Len(quotations') <= MaxQuotations

NextQuote ==
  \/ \E data \in QuotationInputs : create_quotation(data) /\ QuoteBounded
  \/ \E id \in DOMAIN quotations, data \in QuoteUpdates : update_quotation(id, data)
  \/ \E id \in DOMAIN quotations : delete_quotation(id)
  \/ \E id \in DOMAIN quotations : send_quotation(id)
  \/ \E id \in DOMAIN quotations : accept_quotation(id)
  \/ \E id \in DOMAIN quotations : reject_quotation(id)
  \/ \E id \in DOMAIN quotations : convert_to_order(id) /\ QuoteBounded

SpecQuote == InitQuote /\ [][NextQuote]_vars

\* ------------------------------------------- rejected requests: specification
\* Every handler family takes requests it must refuse (a row that does not
\* exist, a status the transition does not start from, a quantity above the
\* stock, an amount above the credit) next to requests it accepts.
InitFail ==
  /\ stock = ConvStock.stock
  /\ txns = ConvStock.txns
  /\ current_stock = ConvStock.current_stock
  /\ orders = ConvOrders
  /\ pos = SeedPOs
  /\ invoices = <<>>
  /\ outstanding = [c \in Customers |-> 0]
  /\ seqs = [t \in SeqTypes |-> IF t = "quotation" THEN 1 ELSE 0]
  /\ payments = <<>>
  /\ credit_notes = <<>>
  /\ debit_notes = <<>>
  /\ hist = NoHist
  /\ quotations = SubSeq(SeedQuotations, 1, 1)
  /\ payable = [s \in Suppliers |-> 0]
  /\ bank = [b \in BankAccounts |-> 0]
  /\ inflight = <<>>
  /\ resp = Resp(0, <<>>)

FailReceiveInputs == {<<>>, << [item_id |-> 1, quantity |-> MaxQty] >>}

FailInvoiceInputs ==
  {[customer_id |-> c, items |-> << [product_id |-> 1, quantity |-> 1,
                                     unit_price |-> SellingPrice(1), discount_percent |-> 0] >>,
    warehouse_id |-> NULL, sales_order_id |-> NULL, is_interstate |-> FALSE, charges |-> 0] :
      c \in {NULL, 1, UnknownId}}

\* a receipt of 50, a request without an amount, a party that does not exist
FailPaymentInputs ==
  {[party_type |-> "customer", party_id |-> c, amount |-> a, bank_account_id |-> 1,
    allocations |-> al] :
      c \in {1, UnknownId}, a \in {0, 50},
      al \in {<<>>, << [invoice_id |-> 1, amount |-> 50] >>}}

FailCreditNoteInputs ==
  {[customer_id |-> c, invoice_id |-> NULL, is_interstate |-> FALSE,
    items |-> << [product_id |-> 1, quantity |-> 1] >>] : c \in {1, UnknownId}}

FailApplyInputs ==
  {[invoice_id |-> d, amount |-> a] : d \in {NULL, 1, UnknownId}, a \in {50, 400}}

FailBounded ==
  /\ Len(txns') <= MaxFailTxns
  /\ Len(orders') <= MaxQuoteOrders
  /\ PayBounded
  /\ \A c \in Customers : outstanding'[c] >= 0

NextFail ==
  \/ \E from \in Warehouses, to \in Warehouses, qty \in {MaxStock} :
       transfer_stock(from, to, 1, qty) /\ FailBounded
  \/ \E id \in DOMAIN pos \cup {UnknownId}, w \in {NULL, 1}, r \in FailReceiveInputs :
       receive_purchase_order(id, w, r) /\ FailBounded
  \/ \E id \in DOMAIN orders \cup {UnknownId} : confirm_sales_order(id) /\ FailBounded
  \/ \E id \in DOMAIN orders \cup {UnknownId} : cancel_sales_order(id) /\ FailBounded
  \/ \E data \in FailInvoiceInputs : create_invoice(data) /\ FailBounded
  \/ \E id \in DOMAIN invoices \cup {UnknownId} : void_invoice(id) /\ FailBounded
  \/ \E data \in FailPaymentInputs : create_payment(data) /\ FailBounded
  \/ \E id \in DOMAIN payments \cup {UnknownId} : cancel_payment(id) /\ FailBounded
  \/ \E data \in FailCreditNoteInputs : create_credit_note(data) /\ FailBounded
  \/ \E id \in DOMAIN credit_notes \cup {UnknownId} : approve_credit_note(id)
  \/ \E id \in DOMAIN credit_notes \cup {UnknownId}, data \in FailApplyInputs :
       apply_credit_note(id, data)
  \/ \E id \in DOMAIN quotations \cup {UnknownId} : accept_quotation(id)
  \/ \E id \in DOMAIN quotations \cup {UnknownId} : convert_to_order(id) /\ FailBounded

SpecFail == InitFail /\ [][NextFail]_vars

\* --------------------------------------------- two tenants: specification
\* Requests of organization RequestOrganization that name bank accounts of
\* either organization.
TenantPaymentInputs ==
  {[party_type |-> "customer", party_id |-> 1, amount |-> a, bank_account_id |-> b,
    allocations |-> <<>>] : a \in {50, 118}, b \in {NULL} \cup BankAccounts}
  \cup
  {[party_type |-> "supplier", party_id |-> 1, amount |-> 50, bank_account_id |-> b,
    allocations |-> <<>>] : b \in {NULL} \cup BankAccounts}

TenantBounded ==
  /\ Len(invoices') <= MaxInvoices
  /\ Len(payments') <= MaxTenantPayments
  /\ \A c \in Customers : outstanding'[c] >= 0 - MaxOverpaid

NextTenant ==
  \/ \E data \in PayInvoiceInputs : create_invoice(data) /\ TenantBounded
  \/ \E data \in TenantPaymentInputs : create_payment(data) /\ TenantBounded
  \/ \E id \in DOMAIN payments : cancel_payment(id) /\ TenantBounded

SpecTenant == InitPay /\ [][NextTenant]_vars

\* --------------------------------------- document numbers: specification
PurchaseOrderInputs ==
  {[supplier_id |-> 1, is_interstate |-> FALSE, charges |-> 0,
    items |-> << [product_id |-> 1, quantity |-> q, unit_price |-> SellingPrice(1),
                  discount_percent |-> 0] >>] : q \in {1}}

NumPaymentInputs ==
  {[party_type |-> "customer", party_id |-> 1, amount |-> 50, bank_account_id |-> NULL,
    allocations |-> <<>>]}

NumBounded ==
  /\ Len(pos') <= MaxPurchaseOrders
  /\ Len(invoices') <= MaxOrderInvoices
  /\ Len(credit_notes') <= MaxCreditNotes
  /\ Len(payments') <= MaxTenantPayments

NextNum ==
  \/ \E data \in PurchaseOrderInputs : create_purchase_order(data) /\ NumBounded
  \/ \E id \in DOMAIN pos : delete_purchase_order(id)
  \/ \E id \in DOMAIN orders : convert_sales_order_to_invoice(id) /\ NumBounded
  \/ \E data \in PayInvoiceInputs : create_invoice(data) /\ NumBounded
  \/ \E data \in CreditNoteInputs : create_credit_note(data) /\ NumBounded
  \/ \E data \in NumPaymentInputs : create_payment(data) /\ NumBounded

SpecNum == InitPay /\ [][NextNum]_vars

\* --------------------------------------- stock ledger numbers: specification
\* Two draft orders on warehouse 1: the first opens with a service line, so
\* its stock line is the second of the order; the second has the stock line
\* alone.
TxnOrders ==
  << [status |-> "draft", warehouse_id |-> 1, customer_id |-> 1, grand_total |-> 168,
      items |-> << [product_id |-> 2, quantity |-> 1], [product_id |-> 1, quantity |-> 1] >>],
     [status |-> "draft", warehouse_id |-> 1, customer_id |-> 1, grand_total |-> 118,
      items |-> << [product_id |-> 1, quantity |-> 1] >>] >>

InitTxn ==
  /\ stock = ConvStock.stock
  /\ txns = ConvStock.txns
  /\ current_stock = ConvStock.current_stock
  /\ orders = TxnOrders
  /\ pos = SeedPOs
  /\ invoices = <<>>
  /\ outstanding = [c \in Customers |-> 0]
  /\ seqs = [t \in SeqTypes |-> 0]
  /\ payments = <<>>
  /\ credit_notes = <<>>
  /\ debit_notes = <<>>
  /\ hist = NoHist
  /\ quotations = <<>>
  /\ payable = [s \in Suppliers |-> 0]
  /\ bank = [b \in BankAccounts |-> 0]
  /\ inflight = <<>>
  /\ resp = Resp(0, <<>>)

TxnInvoiceInputs ==
  {[customer_id |-> 1, items |-> << [product_id |-> 1, quantity |-> 1,
                                     unit_price |-> SellingPrice(1), discount_percent |-> 0] >>,
    warehouse_id |-> 1, sales_order_id |-> NULL, is_interstate |-> FALSE, charges |-> 0]}

TxnBounded ==
  /\ Len(txns') <= MaxTxnRows
  /\ Len(invoices') <= MaxOrderInvoices

NextTxn ==
  \/ \E id \in DOMAIN orders : confirm_sales_order(id) /\ TxnBounded
  \/ \E id \in DOMAIN orders : cancel_sales_order(id) /\ TxnBounded
  \/ \E id \in DOMAIN orders : convert_sales_order_to_invoice(id) /\ TxnBounded
  \/ \E data \in TxnInvoiceInputs : create_invoice(data) /\ TxnBounded
  \/ \E to \in Warehouses : transfer_stock(1, to, 1, 1) /\ TxnBounded
  \/ \E id \in DOMAIN pos, r \in FailReceiveInputs : receive_purchase_order(id, 1, r) /\ TxnBounded

SpecTxn == InitTxn /\ [][NextTxn]_vars

\* -------------------------------------- document totals: specification
\* Orders are created from nothing, so every row of orders carries the
\* monetary columns create_sales_order stores.
InitTotals ==
  /\ stock = ConvStock.stock
  /\ txns = ConvStock.txns
  /\ current_stock = ConvStock.current_stock
  /\ orders = <<>>
  /\ pos = SeedPOs
  /\ invoices = <<>>
  /\ outstanding = [c \in Customers |-> 0]
  /\ seqs = [t \in SeqTypes |-> 0]
  /\ payments = <<>>
  /\ credit_notes = <<>>
  /\ debit_notes = <<>>
  /\ hist = NoHist
  /\ quotations = <<>>
  /\ payable = [s \in Suppliers |-> 0]
  /\ bank = [b \in BankAccounts |-> 0]
  /\ inflight = <<>>
  /\ resp = Resp(0, <<>>)

\* lines with and without a discount, taxed and untaxed, and totals that
\* fall on and off a whole amount
SalesOrderInputs ==
  {[customer_id |-> c, warehouse_id |-> 1, is_interstate |-> inter, charges |-> ch,
    items |-> << [product_id |-> p, quantity |-> q, unit_price |-> SellingPrice(p),
                  discount_percent |-> d] >>] :
      c \in {1}, inter \in {FALSE}, ch \in {0, 50}, p \in Products,
      q \in {1}, d \in {0, 10, 25}}

TotalsBounded == Len(orders') <= MaxTotalsOrders

NextTotals ==
  \/ \E data \in SalesOrderInputs : create_sales_order(data) /\ TotalsBounded
  \/ \E id \in DOMAIN orders : confirm_sales_order(id)
  \/ \E id \in DOMAIN orders : cancel_sales_order(id)

SpecTotals == InitTotals /\ [][NextTotals]_vars

\* ------------------------------------------------------------ stock claims
Rows == Products \X Warehouses

\* the lines of an order that draw on stock: product tracked, order has a warehouse
StockLines(order) ==
  {i \in DOMAIN order.items : TrackInventory(order.items[i].product_id)}

\* the lines whose quantity exceeds quantity - reserved_quantity of their row
ShortLines(order) ==
  {i \in StockLines(order) :
     LET row == stock[<<order.items[i].product_id, order.warehouse_id>>]
     IN order.items[i].quantity > row.quantity - row.reserved_quantity}

ReservedBy(order, k) ==
  SumOver({i \in StockLines(order) : <<order.items[i].product_id, order.warehouse_id>> = k},
          [i \in DOMAIN order.items |-> order.items[i].quantity])

C5_AvailableAfterMutation ==
  [][\A k \in Rows :
       stock'[k] # stock[k] =>
         stock'[k].available_quantity = stock'[k].quantity - stock'[k].reserved_quantity
  ]_vars

\* the ledger of one product and warehouse, in creation order
PairTxns(k) ==
  SelectSeq(txns, LAMBDA t : <<t.product_id, t.warehouse_id>> = k)

\* replay by signed quantity: purchases, adjustments and transfers add their
\* quantity, a sale subtracts it, a reservation adds to the reserved balance
\* and a release subtracts from it
RECURSIVE Replay(_, _)
Replay(ts, acc) ==
  IF ts = <<>> THEN acc
  ELSE LET t == Head(ts)
           q == t.quantity
           acc2 ==
             CASE t.transaction_type \in {"purchase", "adjustment", "transfer"} ->
                    [acc EXCEPT !.quantity = @ + q]
               [] t.transaction_type = "sale" -> [acc EXCEPT !.quantity = @ - q]
               [] t.transaction_type = "reservation" -> [acc EXCEPT !.reserved_quantity = @ + q]
               [] t.transaction_type = "reservation_release" ->
                    [acc EXCEPT !.reserved_quantity = @ - q]
               [] OTHER -> acc
       IN Replay(Tail(ts), acc2)

\* replay that reads a sale as the ledger's deduct: the quantity is floored at
\* zero and the sold quantity is released from the reserved balance
RECURSIVE ReplayDeduct(_, _)
ReplayDeduct(ts, acc) ==
  IF ts = <<>> THEN acc
  ELSE LET t == Head(ts)
           q == t.quantity
           acc2 ==
             CASE t.transaction_type \in {"purchase", "adjustment", "transfer"} ->
                    [acc EXCEPT !.quantity = @ + q]
               [] t.transaction_type = "sale" ->
                    [acc EXCEPT !.quantity = Max(0, @ - q),
                                !.reserved_quantity = Max(0, @ - Min(q, @))]
               [] t.transaction_type = "reservation" -> [acc EXCEPT !.reserved_quantity = @ + q]
               [] t.transaction_type = "reservation_release" ->
                    [acc EXCEPT !.reserved_quantity = Max(0, @ - q)]
               [] OTHER -> acc
       IN ReplayDeduct(Tail(ts), acc2)

Zero == [quantity |-> 0, reserved_quantity |-> 0]
Balances(row) == [quantity |-> row.quantity, reserved_quantity |-> row.reserved_quantity]

CurrentLedger == Ledger(invoices, pos, outstanding, payable, bank)

\* the invoices a payment holds an allocation row for
AllocatedInvoices(payment) ==
  {payment.allocations[k].document_id :
     k \in {j \in DOMAIN payment.allocations :
              payment.allocations[j].document_type = "invoice"}}

\* C7: cancelling a payment right after it was recorded restores, for every
\* invoice it was allocated to, paid_amount, balance_due and status, and
\* restores the customer's outstanding amount, the supplier's balance and the
\* bank balance to their values before the payment.
C7_PaymentRoundTrip ==
  [][\A id \in DOMAIN payments :
       (/\ cancel_payment(id)
        /\ payments[id].status = "completed"
        /\ hist.payment_id = id
        /\ hist.post = CurrentLedger) =>
         /\ \A d \in AllocatedInvoices(payments[id]) :
               /\ invoices'[d].paid_amount = hist.pre.invoices[d].paid_amount
               /\ invoices'[d].balance_due = hist.pre.invoices[d].balance_due
               /\ invoices'[d].status = hist.pre.invoices[d].status
         /\ outstanding' = hist.pre.outstanding
         /\ payable' = hist.pre.payable
         /\ bank' = hist.pre.bank
  ]_vars

\* allocations to a document by payments that are not cancelled
AllocSum(type, d) ==
  SumOver(DOMAIN payments,
          [i \in DOMAIN payments |->
             IF payments[i].status = "completed"
             THEN SumSeq([k \in DOMAIN payments[i].allocations |->
                            IF /\ payments[i].allocations[k].document_type = type
                               /\ payments[i].allocations[k].document_id = d
                            THEN payments[i].allocations[k].allocated_amount ELSE 0])
             ELSE 0])

PaymentAllocSum(payment) ==
  SumSeq([k \in DOMAIN payment.allocations |-> payment.allocations[k].allocated_amount])

\* C9: for every payment the allocation rows sum to at most amount,
\* allocated_amount is that sum, and unallocated_amount = amount -
\* allocated_amount is never negative.
C9_PaymentAllocations ==
  \A i \in DOMAIN payments :
    /\ PaymentAllocSum(payments[i]) <= payments[i].amount
    /\ payments[i].allocated_amount = PaymentAllocSum(payments[i])
    /\ payments[i].unallocated_amount = payments[i].amount - payments[i].allocated_amount
    /\ payments[i].unallocated_amount >= 0

\* what is left to pay on a document
Remaining(alloc) ==
  IF alloc.document_type = "invoice" THEN invoices[alloc.document_id].balance_due
  ELSE pos[alloc.document_id].grand_total - pos[alloc.document_id].advance_amount
         - DebitNoteAmount(alloc.document_id)
         - AllocSum("purchase_order", alloc.document_id)

\* the allocation rows a step adds to payment i
NewAllocs(i) ==
  LET old == IF i \in DOMAIN payments THEN Len(payments[i].allocations) ELSE 0
  IN {payments'[i].allocations[k] : k \in (old + 1)..Len(payments'[i].allocations)}

\* C10: every allocation row a request adds is at most the remaining balance
\* its document had when the request arrived, and afterwards no invoice has
\* paid_amount above grand_total and no purchase order is paid above its
\* grand_total.
C10_AllocationCapped ==
  [][/\ \A i \in DOMAIN payments' : \A alloc \in NewAllocs(i) :
          alloc.allocated_amount <= Remaining(alloc)
     /\ \A d \in DOMAIN invoices' : invoices'[d].paid_amount <= invoices'[d].grand_total
     /\ \A d \in DOMAIN pos' :
          SumOver(DOMAIN payments',
            [i \in DOMAIN payments' |->
               IF payments'[i].status = "completed"
               THEN SumSeq([k \in DOMAIN payments'[i].allocations |->
                              IF /\ payments'[i].allocations[k].document_type = "purchase_order"
                                 /\ payments'[i].allocations[k].document_id = d
                              THEN payments'[i].allocations[k].allocated_amount ELSE 0])
               ELSE 0]) <= pos'[d].grand_total
  ]_vars

\* ------------------------------------------------------ concurrency claims
\* C1: the numbers drawn from one sequence key are strictly increasing in
\* the order their documents were inserted, hence pairwise distinct: for
\* the invoices numbered by get_next_number and for the payments.
C1_NumbersIncrease ==
  /\ \A i, j \in {d \in DOMAIN invoices : invoices[d].source_type = "NULL"} :
        i < j => invoices[i].invoice_number[2] < invoices[j].invoice_number[2]
  /\ \A i, j \in DOMAIN payments :
        i < j => payments[i].payment_number[2] < payments[j].payment_number[2]

\* what the confirmed orders ask of a Stock row
ConfirmedDemand(k) ==
  SumOver({id \in DOMAIN orders : orders[id].status = "confirmed"},
          [id \in DOMAIN orders |-> ReservedBy(orders[id], k)])

AllDone == \A r \in DOMAIN inflight : inflight[r].phase \in {"done", "failed"}

\* C3: once every request has finished, the customer's outstanding amount is
\* the sum of the invoices raised minus the payments received, which is what
\* applying them one after the other in any order gives.
C3_BalanceSerializable ==
  AllDone =>
    \A c \in Customers :
      outstanding[c] =
        SumSeq([d \in DOMAIN invoices |->
                  IF invoices[d].customer_id = c THEN invoices[d].total_amount ELSE 0])
        - SumSeq([i \in DOMAIN payments |->
                    IF payments[i].customer_id = c THEN payments[i].amount ELSE 0])

\* ------------------------------------------------------- document claims
\* the rounded sum of the lines' taxable amounts and taxes
LinesTotal(data) ==
  RoundHalfEven(SumSeq([i \in DOMAIN data.items |->
      Taxable4(data.items[i]) + LineTax4(data.items[i], data.is_interstate)]))

\* C11: creating an invoice sets its grand_total to the rounded sum of the
\* lines' taxable amounts and taxes, its balance_due to that grand_total, and
\* adds exactly that grand_total to the customer's outstanding_amount.
C11_InvoiceTotals ==
  [][\A data \in InvoiceInputs :
       (create_invoice(data) /\ resp'.code = 201) =>
         LET inv == invoices'[Len(invoices')]
             c == data.customer_id
         IN /\ inv.grand_total = LinesTotal(data)
            /\ inv.balance_due = inv.grand_total
            /\ outstanding'[c] = outstanding[c] + inv.grand_total
  ]_vars

\* customer payments whose whole amount is allocated to one invoice
FullyAllocated(data) ==
  /\ data.party_type = "customer"
  /\ Len(data.allocations) = 1
  /\ data.allocations[1].amount = data.amount

C13_CreditNoteApplied ==
  [][\A id \in DOMAIN credit_notes, data \in ApplyInputs :
       (/\ data.amount # NULL
        /\ data.invoice_id \in DOMAIN invoices
        /\ credit_notes[id].status # "draft"
        /\ invoices[data.invoice_id].balance_due >= 0
        /\ apply_credit_note(id, data)) =>
         LET cn == credit_notes[id]
             invoice == invoices[data.invoice_id]
             applied == Min(data.amount,
                            Min(cn.grand_total - cn.adjusted_amount, invoice.balance_due))
         IN /\ credit_notes'[id].adjusted_amount = cn.adjusted_amount + applied
            /\ invoices'[data.invoice_id].credit_note_amount
                 = invoice.credit_note_amount + applied
            /\ outstanding'[cn.customer_id] = outstanding[cn.customer_id] - applied
            /\ credit_notes'[id].adjusted_amount <= credit_notes'[id].grand_total
  ]_vars

Rank(status) ==
  CASE status = "draft" -> 1
    [] status = "confirmed" -> 2
    [] status = "processing" -> 3
    [] status = "shipped" -> 4
    [] status = "delivered" -> 5
    [] OTHER -> 0

\* C15: every status change of a sales order moves it forward along the
\* lifecycle draft -> confirmed -> processing -> shipped -> delivered, or
\* cancels it from draft or confirmed, or is the conversion to an invoice
\* taking a confirmed, processing or shipped order to processing; in
\* particular no order is cancelled from processing, shipped, delivered or
\* cancelled.
C15_SalesOrderLifecycle ==
  [][\A id \in DOMAIN orders :
       LET old == orders[id].status
           new == orders'[id].status
       IN new # old =>
            \/ Rank(old) > 0 /\ Rank(new) > Rank(old)
            \/ new = "cancelled" /\ old \in {"draft", "confirmed"}
            \/ new = "processing" /\ old \in {"confirmed", "processing", "shipped"}
  ]_vars

LinkedInvoices(id) == {i \in DOMAIN invoices : invoices[i].sales_order_id = id}
OrderSales(id) ==
  {n \in DOMAIN txns : /\ txns[n].transaction_type = "sale"
                       /\ txns[n].reference_id \in LinkedInvoices(id)}

C18_QuotationOneWay ==
  [][\A q \in DOMAIN quotations :
       LET old == quotations[q]
           new == quotations'[q]
       IN /\ (~old.converted_to_order /\ new.converted_to_order) =>
               /\ old.status \in {"sent", "accepted"}
               /\ new.status = "converted"
               /\ new.sales_order_id \in DOMAIN orders'
          /\ old.converted_to_order =>
               /\ ~new.deleted
               /\ new.status = "converted"
               /\ new.converted_to_order
               /\ new.sales_order_id = old.sales_order_id
  ]_vars


\* every line of purchase order id has been received in full
FullyReceived(id) ==
  \A k \in DOMAIN pos[id].items :
    pos[id].items[k].received_quantity = pos[id].items[k].quantity

\* C19: a purchase order is in status received only when every line's
\* received_quantity equals its quantity and in status partial only when some
\* line is still short; no line's received_quantity exceeds its quantity.
C19_ReceivedWhenComplete ==
  \A id \in DOMAIN pos :
    /\ \A k \in DOMAIN pos[id].items :
         pos[id].items[k].received_quantity <= pos[id].items[k].quantity
    /\ pos[id].status = "received" => FullyReceived(id)
    /\ pos[id].status = "partial" => ~FullyReceived(id)


\* everything a request can commit
Persisted ==
  <<stock, txns, current_stock, orders, pos, invoices, outstanding, seqs, payments,
    credit_notes, debit_notes, payable, bank, quotations>>

\* C20: a request answered with a business-rule failure (400 for a refused
\* transition, a shortage or an amount above the credit, 404 for a record
\* that does not exist) leaves every persisted row as it was before the call.
C20_FailureLeavesState ==
  [][resp'.code \in {400, 404} => UNCHANGED Persisted]_vars

\* a request was refused in a state that holds stock movements, an invoice,
\* a payment and a credit note written by earlier requests
C20_Witness_Refused ==
  /\ resp.code \in {400, 404}
  /\ Len(txns) > 1
  /\ invoices # <<>>
  /\ payments # <<>>
  /\ credit_notes # <<>>


DistinctNumbers(s, number(_)) ==
  \A i, j \in DOMAIN s : i # j => number(s[i]) # number(s[j])

StoredPOs == SelectSeq(pos, LAMBDA r : ~r.deleted)
PONumber(r) == r.order_number
InvNumber(r) == r.invoice_number
CNNumber(r) == r.credit_note_number
PayNumber(r) == r.payment_number

\* C22: within the organization no two stored documents of one type carry
\* the same number: purchase orders (after creations and deletions), invoices
\* (direct and converted), credit notes and payments.
C22_DocumentNumbersUnique ==
  /\ DistinctNumbers(StoredPOs, PONumber)
  /\ DistinctNumbers(invoices, InvNumber)
  /\ DistinctNumbers(credit_notes, CNNumber)
  /\ DistinctNumbers(payments, PayNumber)

\* a creation was refused because its number is taken: a purchase order was
\* deleted and a later one still carries the number the count yields
C22_Witness_NumberTaken ==
  /\ resp.code = 500
  /\ \E i \in DOMAIN pos : pos[i].deleted
  /\ NumberInUse(pos, <<"POyymm", PurchaseOrderCount(pos) + 1>>)


\* C23: no two StockTransaction rows of the organization carry the same
\* transaction_number, whatever confirmations, cancellations, conversions,
\* invoices, receipts, adjustments and transfers recorded them.
C23_TxnNumbersUnique ==
  \A i, j \in DOMAIN txns : i # j => txns[i].transaction_number # txns[j].transaction_number

\* a request was refused because the number it computed is taken: the count
\* of rows plus one is the number of a stored SALE or REL row
C23_Witness_NumberTaken ==
  /\ resp.code = 500
  /\ \E i \in DOMAIN txns :
       /\ txns[i].transaction_number[1] \in {"SALE", "REL"}
       /\ txns[i].transaction_number[2] = Len(txns) + 1


\* the on-hand quantity of product p over the Stock rows of all warehouses
OnHand(p) ==
  SumSeq([i \in 1..Cardinality(Warehouses) |->
            LET w == CHOOSE v \in Warehouses :
                       Cardinality({u \in Warehouses : u < v}) = i - 1
            IN stock[<<p, w>>].quantity])

\* C24: after every receipt, sale deduction, adjustment and transfer the
\* product's current_stock equals the sum of Stock.quantity over all
\* warehouses of the product.
C24_CurrentStockIsSum ==
  \A p \in Products : current_stock[p] = OnHand(p)

\* product 1 is on hand in both warehouses after a transfer, and a receipt or
\* a sale has moved its quantity since
C24_Witness_TwoWarehouses ==
  /\ stock[<<1, 1>>].quantity > 0
  /\ stock[<<1, 2>>].quantity > 0
  /\ \E i \in DOMAIN txns : txns[i].transaction_type \in {"sale", "purchase"}


\* C25: every stored sales order has taxable_amount equal to the sum of its
\* lines' taxable amounts, grand_total equal to the rounded sum of
\* taxable_amount, total_tax and the charges, and round_off equal to
\* grand_total minus that unrounded sum.
C25_TotalsConsistent ==
  \A id \in DOMAIN orders :
    LET order == orders[id]
        unrounded == order.taxable_amount + order.total_tax + order.charges
    IN /\ order.taxable_amount =
            SumSeq([k \in DOMAIN order.items |-> order.items[k].taxable_amount])
       /\ order.grand_total = RoundHalfEven(unrounded)
       /\ order.round_off = order.grand_total * Scale - unrounded

\* --------------------------------------------------------------- C26
\* the quotation operations that are lifecycle transitions
QuotationTransition(q) ==
  send_quotation(q) \/ accept_quotation(q) \/ reject_quotation(q) \/ convert_to_order(q)

\* C26: every document is created in status draft; the lines and the
\* grand total of a quotation change only while it is draft or sent; and the
\* status of a quotation changes only in a step of a lifecycle transition.
C26_DraftOnlyEdits ==
  [][/\ \A q \in DOMAIN quotations' \ DOMAIN quotations : quotations'[q].status = "draft"
     /\ \A o \in DOMAIN orders' \ DOMAIN orders : orders'[o].status = "draft"
     /\ \A q \in DOMAIN quotations :
          /\ (quotations'[q].items # quotations[q].items
                \/ quotations'[q].grand_total # quotations[q].grand_total)
               => quotations[q].status \in {"draft", "sent"}
          /\ quotations'[q].status # quotations[q].status => QuotationTransition(q)]_vars

\* --------------------------------------------------------------- C27
\* what the customer owes by the documents: the open balances of the
\* invoices that are not void, less the receipts not yet allocated
CustomerBalance(c) ==
  SumOver({i \in DOMAIN invoices : invoices[i].customer_id = c /\ invoices[i].status # "void"},
          [i \in DOMAIN invoices |-> invoices[i].balance_due])
  - SumOver({p \in DOMAIN payments : /\ payments[p].customer_id = c
                                      /\ payments[p].payment_type = "receipt"
                                      /\ payments[p].status = "completed"},
            [p \in DOMAIN payments |-> payments[p].unallocated_amount])

\* C27: in every reachable state a customer's outstanding_amount is the sum
\* of balance_due over the customer's non-void invoices minus the
\* unallocated amounts of the customer's completed receipts.
C27_OutstandingIsLedger ==
  \A c \in Customers : outstanding[c] = CustomerBalance(c)

====
